---- MODULE Spec2Model ----
(***************************************************************************)
(* Model of the plura Slack bot: the relational store (systems, members,  *)
(* triggers, aliases, message_logs), the chat platform's channel, the      *)
(* message substitution pipeline (events/mod.rs), the slash commands       *)
(* (commands/*.rs) and the message follow-up actions                       *)
(* (interactions/message.rs).                                              *)
(*                                                                         *)
(* Strings are sequences of one-character strings.  Option<T> is a         *)
(* sequence of length 0 (None) or 1 (Some).  A NULL id column is Null.     *)
(***************************************************************************)
EXTENDS Integers, Sequences, FiniteSets, TLC

\* ------------------------------------------------------------------ bounds
\* Largest message timestamp the platform hands out (inbound + reposted).
MaxTs == 2
\* Largest trigger row id the store hands out.
MaxTriggers == 2
\* Largest alias row id the store hands out.
MaxAliases == 1
\* Most members the store holds
MaxMembers == 3
\* Largest timestamp the platform hands to a message reposted by reproxy
MaxFollowTs == 4
\* Longest message text given to the content rewriter on its own
MaxTextLen == 3

\* ------------------------------------------------------------- option type
None == <<>>
Some(x) == <<x>>
IsSome(o) == Len(o) = 1
Unwrap(o) == o[1]

\* NULL of a nullable id column (Option<member::Id<Trusted>>)
Null == 0

\* ----------------------------------------------------------------- strings
sJ == <<"J", ":">>
sB == <<"-", "B">>
sHi == <<"h", "i">>
sJHi == <<"J", ":", " ", "h", "i">>
sHiB == <<"h", "i", " ", "-", "B">>
sJHello == <<"J", ":", " ", "h", "e", "l", "l", "o">>
sHello == <<"h", "e", "l", "l", "o">>
sEdited == <<"e", "d">>
sEmpty == <<>>

\* Trigger patterns users type into the trigger form
TriggerTexts == {sJ, sB}
\* trigger::Type
Types == {"Prefix", "Suffix"}

\* SlackMessageContent of inbound messages: text and rich-text blocks.  A
\* block is the sequence of the first text of each of its sections.
Contents ==
    { [text |-> Some(sJHi), blocks |-> Some(<< <<sJHi>> >>)],
      [text |-> Some(sHiB), blocks |-> Some(<< <<sHiB>> >>)],
      [text |-> Some(sHi), blocks |-> Some(<< <<sHi>> >>)],
      [text |-> None, blocks |-> Some(<< <<sHi>> >>)] }

\* ASCII case folding of SQLite's LIKE
Fold(c) ==
    CASE c = "J" -> "j"
      [] c = "B" -> "b"
      [] OTHER -> c

\* X LIKE pattern of SQLite: % matches any run, _ any one character, other
\* characters match case-insensitively
RECURSIVE Like(_, _)
Like(s, pat) ==
    IF pat = <<>> THEN s = <<>>
    ELSE IF Head(pat) = "%"
         THEN Like(s, Tail(pat)) \/ (s # <<>> /\ Like(Tail(s), pat))
    ELSE IF s = <<>> THEN FALSE
    ELSE IF Head(pat) = "_" THEN Like(Tail(s), Tail(pat))
    ELSE Fold(Head(s)) = Fold(Head(pat)) /\ Like(Tail(s), Tail(pat))

\* A strip_prefix that removes every leading occurrence of the pattern
RECURSIVE strip_every_prefix(_, _)
strip_every_prefix(text, p) ==
    IF Len(p) <= Len(text) /\ SubSeq(text, 1, Len(p)) = p
    THEN LET rest == SubSeq(text, Len(p) + 1, Len(text)) IN
         IF p # <<>> /\ IsSome(strip_every_prefix(rest, p))
         THEN strip_every_prefix(rest, p)
         ELSE Some(rest)
    ELSE None

\* str::strip_prefix / str::strip_suffix
strip_prefix(text, p) ==
    IF Len(p) <= Len(text) /\ SubSeq(text, 1, Len(p)) = p
    THEN Some(SubSeq(text, Len(p) + 1, Len(text)))
    ELSE None

strip_suffix(text, p) ==
    IF Len(p) <= Len(text) /\ SubSeq(text, Len(text) - Len(p) + 1, Len(text)) = p
    THEN Some(SubSeq(text, 1, Len(text) - Len(p)))
    ELSE None

\* ------------------------------------------------------------------- state
VARIABLES
    systems,        \* systems table: id -> row
    members,        \* members table: id -> row
    triggers,       \* triggers table: set of rows
    aliases,        \* aliases table: set of rows
    message_logs,   \* message_logs table: set of rows
    next_trigger_id,
    next_alias_id,
    channel,        \* messages visible on the platform
    next_ts,        \* next timestamp the platform assigns
    deleted,        \* timestamps the platform reported (or will report) deleted
    run,            \* the handle_message invocation in flight
    calls,          \* platform calls issued, per handled inbound message
    done,           \* result of handle_message, per handled inbound message
    errlog,         \* errors logged at the event-handler boundary
    ret,            \* the last request of a command or follow-up and its response
    views,          \* modal views the platform has open, per user
    switching,      \* switch_member invocations between their queries
    system_oauth_process    \* system_oauth_process table: set of rows

db == <<systems, members, triggers, aliases, message_logs, next_trigger_id, next_alias_id>>
platform == <<channel, next_ts, deleted, views>>
pipeline == <<run, calls, done, errlog>>
flows == <<switching, system_oauth_process>>
vars == <<systems, members, triggers, aliases, message_logs, next_trigger_id,
          next_alias_id, channel, next_ts, deleted, run, calls, done, errlog, ret,
          views, switching, system_oauth_process>>

\* Slack accounts; U3 owns no system
Users == {"U1", "U2", "U3"}
SystemIds == DOMAIN systems
MemberIds == DOMAIN members
Timestamps == 1..MaxTs
\* Ids of the messages a follow-up can be asked for
FollowIds == 1..MaxFollowTs

\* ------------------------------------------------------------ store reads
\* A lookup that gives the first system to a user who owns none
fetch_by_user_id_or_first(user_id) ==
    IF \E s \in SystemIds : systems[s].owner_id = user_id
    THEN Some(CHOOSE s \in SystemIds : systems[s].owner_id = user_id)
    ELSE Some(1)

\* System::fetch_by_user_id
fetch_by_user_id(user_id) ==
    IF \E s \in SystemIds : systems[s].owner_id = user_id
    THEN Some(CHOOSE s \in SystemIds : systems[s].owner_id = user_id)
    ELSE None

\* A validation whose query lost "AND system_id = $2"
validate_ignoring_system(id, system_id) ==
    IF id \in MemberIds THEN Some(id) ELSE None

\* member::Id<Untrusted>::validate_by_system
validate_by_system(id, system_id) ==
    IF id \in MemberIds /\ members[id].system_id = system_id
    THEN Some(id)
    ELSE None

\* member::Id<Untrusted>::validate_by_user
validate_by_user(id, user_id) ==
    IF id \in MemberIds /\ systems[members[id].system_id].owner_id = user_id
    THEN Some(id)
    ELSE None

\* An alias lookup whose WHERE clause lost "system_id = $2"
fetch_by_alias_ignoring_system(alias, system_id) ==
    IF \E a \in aliases : a.alias = alias
    THEN {Some(a.member_id) : a \in {x \in aliases : x.alias = alias}}
    ELSE {None}

\* member::Id::fetch_by_alias: the results fetch_optional may return
fetch_by_alias(alias, system_id) ==
    IF \E a \in aliases : a.alias = alias /\ a.system_id = system_id
    THEN {Some(a.member_id) : a \in {x \in aliases : x.alias = alias /\ x.system_id = system_id}}
    ELSE {None}

\* MemberRef::validate_by_system
MemberRef_validate_by_system(ref, system_id) ==
    IF ref.kind = "Id"
    THEN {validate_by_system(ref.id, system_id)}
    ELSE fetch_by_alias(ref.alias, system_id)

\* member::Id<Trusted>::enabled
enabled(member_id) == members[member_id].enabled

\* A matcher whose WHERE clause lost "members.enabled = TRUE"
find_member_ignoring_enabled(self, message) ==
    { [id |-> t.member_id, trigger_text |-> t.text, typ |-> t.typ] :
        t \in { x \in triggers :
                  /\ x.member_id \in MemberIds
                  /\ \/ (x.typ = "Suffix" /\ Like(message, <<"%">> \o x.text))
                     \/ (x.typ = "Prefix" /\ Like(message, x.text \o <<"%">>)) } }

\* A matcher whose WHERE clause lost its two LIKE conditions
find_member_ignoring_text(self, message) ==
    { [id |-> t.member_id, trigger_text |-> t.text, typ |-> t.typ] :
        t \in { x \in triggers :
                  x.member_id \in MemberIds /\ members[x.member_id].enabled = TRUE } }

\* The rows System::find_member_by_trigger_rules's query selects for a
\* message sent by the owner of system self
find_member_by_trigger_rules(self, message) ==
    { [id |-> t.member_id, trigger_text |-> t.text, typ |-> t.typ] :
        t \in { x \in triggers :
                  /\ x.member_id \in MemberIds
                  /\ members[x.member_id].enabled = TRUE
                  /\ \/ (x.typ = "Suffix" /\ Like(message, <<"%">> \o x.text))
                     \/ (x.typ = "Prefix" /\ Like(message, x.text \o <<"%">>)) } }

\* impl From<Member> for TriggeredMember
FromMember(member_id) ==
    [id |-> member_id, trigger_text |-> sEmpty, typ |-> "Prefix"]

\* A switch whose UPDATE is never executed
change_fronting_member_unsaved(self, new_active_member_id) == systems

\* A switch whose UPDATE has no WHERE clause
change_fronting_member_every_system(self, new_active_member_id) ==
    [s \in DOMAIN systems |->
       [systems[s] EXCEPT !.currently_fronting_member_id = new_active_member_id]]

\* system::Id<Trusted>::change_fronting_member: the UPDATE of the systems row
change_fronting_member(self, new_active_member_id) ==
    [systems EXCEPT ![self].currently_fronting_member_id = new_active_member_id]

\* -------------------------------------------------------- content rewriter
\* rewrite_content on one rich-text block: the first section carries a
\* prefix, the last one a suffix
RewriteBlock(b, member) ==
    LET n == Len(b)
        p == strip_prefix(b[1], member.trigger_text)
        b1 == IF member.typ = "Prefix" /\ IsSome(p)
              THEN [b EXCEPT ![1] = Unwrap(p)]
              ELSE b
        q == strip_suffix(b1[n], member.trigger_text)
    IN  IF member.typ = "Suffix" /\ IsSome(q)
        THEN [b1 EXCEPT ![n] = Unwrap(q)]
        ELSE b1

RewriteText(text, member) ==
    LET r == IF member.typ = "Prefix"
             THEN strip_prefix(text, member.trigger_text)
             ELSE strip_suffix(text, member.trigger_text)
    IN  IF IsSome(r) THEN Unwrap(r) ELSE text

rewrite_content(content, member) ==
    [text |-> IF IsSome(content.text)
              THEN Some(RewriteText(Unwrap(content.text), member))
              ELSE None,
     blocks |-> IF IsSome(content.blocks)
                THEN Some([i \in DOMAIN Unwrap(content.blocks) |->
                             RewriteBlock(Unwrap(content.blocks)[i], member)])
                ELSE None]

\* ---------------------------------------------------------------- initial
\* Result<(), PushEventError> of handle_message, with the error's context
\* and the failing step
NotDone == [result |-> "", context |-> "", cause |-> ""]
OkRes == [result |-> "Ok", context |-> "", cause |-> ""]
Err(context, cause) == [result |-> "Err", context |-> context, cause |-> cause]

IdleRun ==
    [pc |-> "idle", user |-> "", ts |-> Null,
     content |-> [text |-> None, blocks |-> None],
     system |-> None, member |-> None, triggered |-> FALSE, posted |-> Null]

\* No switch command is running
NoSwitching == <<>>
NoRet == [op |-> "", user |-> "", foreign |-> FALSE, arg |-> <<>>, result |-> <<>>]

\* A populated store: system 1 (owner U1) has members 1 and 2, system 2
\* (owner U2) has member 3; member 2 has the suffix trigger "-B" and member
\* 3 the prefix trigger "J:"; nobody fronts; the auto-switch flag of
\* system 1 is any value of its column, that of system 2 is off.
Init ==
    /\ \E auto \in BOOLEAN :
         systems = [s \in {1, 2} |->
                      [owner_id |-> IF s = 1 THEN "U1" ELSE "U2",
                       currently_fronting_member_id |-> Null,
                       auto_switch_on_trigger |-> IF s = 1 THEN auto ELSE FALSE]]
    /\ members = <<[system_id |-> 1, enabled |-> TRUE, display_name |-> "A"],
                   [system_id |-> 1, enabled |-> TRUE, display_name |-> "B"],
                   [system_id |-> 2, enabled |-> TRUE, display_name |-> "C"]>>
    /\ triggers = {[id |-> 1, member_id |-> 2, system_id |-> 1,
                     text |-> sB, typ |-> "Suffix"],
                    [id |-> 2, member_id |-> 3, system_id |-> 2,
                     text |-> sJ, typ |-> "Prefix"]}
    /\ aliases = {}
    /\ message_logs = {}
    /\ next_trigger_id = 3
    /\ next_alias_id = 1
    /\ channel = {}
    /\ next_ts = 1
    /\ deleted = {}
    /\ run = IdleRun
    /\ calls = [t \in Timestamps |-> <<>>]
    /\ done = [t \in Timestamps |-> NotDone]
    /\ errlog = {}
    /\ ret = NoRet
    /\ switching = NoSwitching
    /\ system_oauth_process = {}
    /\ views = {}

\* --------------------------------------------------- substitution pipeline
\* handle_message returns: process_push_event logs an Err and acknowledges
Finish(result) ==
    /\ run' = IdleRun
    /\ done' = [done EXCEPT ![run.ts] = result]
    /\ errlog' = IF result.result = "Ok" THEN errlog ELSE errlog \cup {<<run.ts, result>>}

\* process_push_event has returned its response to the delivery of message
\* t: it awaits push_event_callback, logs an Err, and then answers with an
\* empty body
Acknowledged(t) == done[t] # NotDone

Call(api, ok, target) == [api |-> api, ok |-> ok, target |-> target]

\* A user sends a message; the platform delivers the message event and
\* handle_message fetches the sender's system.
HandleMessage(u, c) ==
    /\ run.pc = "idle"
    /\ next_ts + 1 <= MaxTs
    /\ channel' = channel \cup {[ts |-> next_ts, user |-> u, member |-> Null, content |-> c, edited |-> FALSE]}
    /\ next_ts' = next_ts + 1
    /\ \E ok \in BOOLEAN :
         LET r0 == [IdleRun EXCEPT !.user = u, !.ts = next_ts, !.content = c]
             sys == fetch_by_user_id(u)
         IN  IF ~ok
             THEN /\ run' = IdleRun
                  /\ done' = [done EXCEPT ![next_ts] = Err("SystemFetch", "sqlx")]
                  /\ errlog' = errlog \cup {<<next_ts, Err("SystemFetch", "sqlx")>>}
             ELSE IF ~IsSome(sys)
             THEN /\ run' = IdleRun
                  /\ done' = [done EXCEPT ![next_ts] = OkRes]
                  /\ errlog' = errlog
             ELSE /\ run' = [r0 EXCEPT !.pc = "find_member",
                                       !.system = Some([id |-> Unwrap(sys)] @@ systems[Unwrap(sys)])]
                  /\ UNCHANGED <<done, errlog>>
    /\ UNCHANGED <<db, deleted, views, calls, ret, flows>>

\* A selection that goes on to switch whatever the auto-switch flag says
FindMemberAlwaysSwitching ==
    /\ run.pc = "find_member"
    /\ LET system == Unwrap(run.system) IN
       \E ok \in BOOLEAN :
         IF IsSome(run.content.text)
         THEN LET rows == find_member_by_trigger_rules(system.id, Unwrap(run.content.text)) IN
              IF ~ok THEN Finish(Err("MemberFetch", "sqlx"))
              ELSE IF rows = {} THEN Finish(OkRes)
              ELSE \E m \in rows :
                     /\ run' = [run EXCEPT !.member = Some(m), !.triggered = TRUE,
                                           !.pc = "switch"]
                     /\ UNCHANGED <<done, errlog>>
         ELSE IF system.currently_fronting_member_id = Null THEN Finish(OkRes)
         ELSE IF ~ok THEN Finish(Err("MemberFetch", "sqlx"))
         ELSE /\ run' = [run EXCEPT !.member = Some(FromMember(system.currently_fronting_member_id)),
                                    !.pc = "post"]
              /\ UNCHANGED <<done, errlog>>
    /\ UNCHANGED <<db, platform, calls, ret, flows>>

\* handle_message selects the persona: by trigger when the message has
\* text, else the currently fronting member of the fetched system row.
FindMember ==
    /\ run.pc = "find_member"
    /\ LET system == Unwrap(run.system) IN
       \E ok \in BOOLEAN :
         IF IsSome(run.content.text)
         THEN LET rows == find_member_by_trigger_rules(system.id, Unwrap(run.content.text)) IN
              IF ~ok THEN Finish(Err("MemberFetch", "sqlx"))
              ELSE IF rows = {} THEN Finish(OkRes)
              ELSE \E m \in rows :
                     /\ run' = [run EXCEPT !.member = Some(m), !.triggered = TRUE,
                                           !.pc = IF system.auto_switch_on_trigger
                                                  THEN "switch" ELSE "post"]
                     /\ UNCHANGED <<done, errlog>>
         ELSE IF system.currently_fronting_member_id = Null THEN Finish(OkRes)
         ELSE IF ~ok THEN Finish(Err("MemberFetch", "sqlx"))
         ELSE /\ run' = [run EXCEPT !.member = Some(FromMember(system.currently_fronting_member_id)),
                                    !.pc = "post"]
              /\ UNCHANGED <<done, errlog>>
    /\ UNCHANGED <<db, platform, calls, ret, flows>>

\* handle_message switches the fronting member to the triggered member
AutoSwitch ==
    /\ run.pc = "switch"
    /\ LET system == Unwrap(run.system)
           member == Unwrap(run.member)
       IN  \E ok \in BOOLEAN :
             IF ok
             THEN /\ systems' = change_fronting_member(system.id, member.id)
                  /\ run' = [run EXCEPT !.pc = "post",
                                        !.system = Some([system EXCEPT !.currently_fronting_member_id = member.id])]
                  /\ UNCHANGED <<done, errlog>>
             ELSE /\ Finish(Err("MemberChange", "sqlx"))
                  /\ UNCHANGED systems
    /\ UNCHANGED <<members, triggers, aliases, message_logs, next_trigger_id,
                   next_alias_id, platform, calls, ret, flows>>

\* The context handle_message gives an error of rewrite_message
RewriteErr(cause) ==
    Err(IF run.triggered THEN "MessageRewrite" ELSE "MemberFetch", cause)

\* A post step whose error is dropped instead of returned
PostAsMemberContinuing ==
    /\ run.pc = "post"
    /\ \E ok \in BOOLEAN :
         /\ calls' = [calls EXCEPT ![run.ts] = Append(@, Call("chat.postMessage", ok, IF ok THEN next_ts ELSE Null))]
         /\ channel' = IF ok
                       THEN channel \cup
                              {[ts |-> next_ts, user |-> "BOT", member |-> Unwrap(run.member).id,
                                content |-> rewrite_content(run.content, Unwrap(run.member)),
                                edited |-> FALSE]}
                       ELSE channel
         /\ next_ts' = IF ok THEN next_ts + 1 ELSE next_ts
         /\ run' = [run EXCEPT !.pc = "log", !.posted = IF ok THEN next_ts ELSE Null]
    /\ UNCHANGED <<db, done, errlog, deleted, views, ret, flows>>

\* rewrite_message: rewrite the content and post it as the member
PostAsMember ==
    /\ run.pc = "post"
    /\ LET member == Unwrap(run.member) IN
       \E ok \in BOOLEAN :
         /\ calls' = [calls EXCEPT ![run.ts] = Append(@, Call("chat.postMessage", ok, IF ok THEN next_ts ELSE Null))]
         /\ IF ok
            THEN /\ channel' = channel \cup
                       {[ts |-> next_ts, user |-> "BOT", member |-> member.id,
                         content |-> rewrite_content(run.content, member),
                         edited |-> FALSE]}
                 /\ next_ts' = next_ts + 1
                 /\ run' = [run EXCEPT !.pc = "log", !.posted = next_ts]
                 /\ UNCHANGED <<done, errlog, deleted, views>>
            ELSE /\ Finish(RewriteErr("PostMessage"))
                 /\ UNCHANGED platform
    /\ UNCHANGED <<db, ret, flows>>

\* A log step that also records the original message
InsertLogTwice ==
    /\ run.pc = "log"
    /\ message_logs' = message_logs \cup
          {[member_id |-> Unwrap(run.member).id, message_id |-> run.posted],
           [member_id |-> Unwrap(run.member).id, message_id |-> run.ts]}
    /\ run' = [run EXCEPT !.pc = "delete"]
    /\ UNCHANGED <<systems, members, triggers, aliases, next_trigger_id,
                   next_alias_id, platform, calls, done, errlog, ret, flows>>

\* A log step whose error is dropped instead of returned
InsertLogContinuing ==
    /\ run.pc = "log"
    /\ \E ok \in BOOLEAN :
         /\ message_logs' = IF ok
                            THEN message_logs \cup
                                   {[member_id |-> Unwrap(run.member).id, message_id |-> run.posted]}
                            ELSE message_logs
         /\ run' = [run EXCEPT !.pc = "delete"]
    /\ UNCHANGED <<systems, members, triggers, aliases, next_trigger_id,
                   next_alias_id, platform, calls, done, errlog, ret, flows>>

\* rewrite_message: record the new message in the message log
InsertLog ==
    /\ run.pc = "log"
    /\ \E ok \in BOOLEAN :
         IF ok
         THEN /\ message_logs' = message_logs \cup
                    {[member_id |-> Unwrap(run.member).id, message_id |-> run.posted]}
              /\ run' = [run EXCEPT !.pc = "delete"]
              /\ UNCHANGED <<done, errlog>>
         ELSE /\ Finish(RewriteErr("MessageLog"))
              /\ UNCHANGED message_logs
    /\ UNCHANGED <<systems, members, triggers, aliases, next_trigger_id,
                   next_alias_id, platform, calls, ret, flows>>

\* A delete step that undoes the post and the log insert when it fails
DeleteOriginalRollingBack ==
    /\ run.pc = "delete"
    /\ \E ok \in BOOLEAN :
         /\ ok => \E m \in channel : m.ts = run.ts
         /\ calls' = [calls EXCEPT ![run.ts] = Append(@, Call("chat.delete", ok, run.ts))]
         /\ IF ok
            THEN /\ channel' = {m \in channel : m.ts # run.ts}
                 /\ deleted' = deleted \cup {run.ts}
                 /\ message_logs' = message_logs
                 /\ Finish(OkRes)
            ELSE /\ channel' = {m \in channel : m.ts # run.posted}
                 /\ deleted' = deleted \cup {run.posted}
                 /\ message_logs' = {l \in message_logs : l.message_id # run.posted}
                 /\ Finish(Err("MessageRewrite", "DeleteMessage"))
    /\ UNCHANGED <<systems, members, triggers, aliases, next_trigger_id,
                   next_alias_id, next_ts, views, ret, flows>>

\* rewrite_message: delete the original with the owner's own token
DeleteOriginal ==
    /\ run.pc = "delete"
    /\ \E ok \in BOOLEAN :
         /\ ok => \E m \in channel : m.ts = run.ts
         /\ calls' = [calls EXCEPT ![run.ts] = Append(@, Call("chat.delete", ok, run.ts))]
         /\ IF ok
            THEN /\ channel' = {m \in channel : m.ts # run.ts}
                 /\ deleted' = deleted \cup {run.ts}
                 /\ Finish(OkRes)
            ELSE /\ Finish(RewriteErr("DeleteMessage"))
                 /\ UNCHANGED <<channel, deleted>>
    /\ UNCHANGED <<db, next_ts, views, ret, flows>>

\* ------------------------------------------------------ message follow-ups
\* MessageLog::fetch_by_message_id
fetch_by_message_id(id) ==
    IF \E l \in message_logs : l.message_id = id
    THEN Some(CHOOSE l \in message_logs : l.message_id = id)
    ELSE None

\* The system a log entry resolves to: log.member_id.fetch().system_id.fetch()
ResolveSystem(log) == systems[members[log.member_id].system_id]

\* What a follow-up handler answers: Ok(()) with nothing shown, an Err that
\* interaction_event logs, a modal view, the info blocks, or the text of an
\* ephemeral notice only the requester sees
NotByMemberEdit == "This message was not sent by a member! Did you maybe want to reproxy instead?"
NotByYou == "This message was not sent by you!"
NotByMember == "A member didn't send this message."
NotByYourSystem == "Your system didn't send this message."
SystemNotFound == "System not found! Make sure you have a system set up. You can use /system create to create one."
Notices == {NotByMemberEdit, NotByYou, NotByMember, NotByYourSystem, SystemNotFound}
Responses == {"Ok", "Err", "view", "info"} \cup Notices

\* views_open: the modal of a user replaces the one they had open
View(kind, user_id, message_id) == [kind |-> kind, user |-> user_id, message_id |-> message_id]
views_open(v) == {x \in views : x.user # v.user} \cup {v}

\* The message of a message action's payload
MessageAt(message_id) == CHOOSE m \in channel : m.ts = message_id

\* A start_edit that opens the form without looking at the system's owner
StartEditUnowned(user_id, message_id, response) ==
    /\ \E m \in channel : m.ts = message_id
    /\ response = "view"
    /\ views' = views_open(View("edit", user_id, message_id))
    /\ UNCHANGED <<db, channel, next_ts, deleted, pipeline, flows>>

\* interactions::message::start_edit: the edit message action by user_id
StartEdit(user_id, message_id, response) ==
    /\ \E m \in channel : m.ts = message_id
    /\ LET log == fetch_by_message_id(message_id) IN
       \E ok \in BOOLEAN :
         IF ~ok THEN response = "Err" /\ UNCHANGED views
         ELSE IF ~IsSome(log) THEN response = NotByMemberEdit /\ UNCHANGED views
         ELSE IF ResolveSystem(Unwrap(log)).owner_id # user_id
         THEN response = NotByYou /\ UNCHANGED views
         ELSE /\ response = "view"
              /\ views' = views_open(View("edit", user_id, message_id))
    /\ UNCHANGED <<db, channel, next_ts, deleted, pipeline, flows>>

\* interactions::message::edit: the edit form submitted by user_id
EditMessage(user_id, message_id, text, response) ==
    /\ View("edit", user_id, message_id) \in views
    /\ views' = views \ {View("edit", user_id, message_id)}
    /\ LET log == fetch_by_message_id(message_id) IN
       \E ok \in BOOLEAN :
         IF ~ok THEN response = "Err" /\ UNCHANGED channel
         ELSE IF ~IsSome(log) THEN response = "Ok" /\ UNCHANGED channel
         ELSE IF ResolveSystem(Unwrap(log)).owner_id # user_id
         THEN response = "Ok" /\ UNCHANGED channel
         ELSE IF text = sEmpty THEN response = "Err" /\ UNCHANGED channel
         ELSE IF ~\E m \in channel : m.ts = message_id
         THEN response = "Err" /\ UNCHANGED channel
         ELSE /\ response = "Ok"
              /\ channel' = {IF m.ts = message_id
                             THEN [m EXCEPT !.content = [text |-> Some(text), blocks |-> None],
                                            !.edited = TRUE]
                             ELSE m : m \in channel}
    /\ UNCHANGED <<db, next_ts, deleted, pipeline, flows>>

\* A delete follow-up that never consults the message log
DeleteMessageUnlogged(user_id, message_id, response) ==
    /\ \E m \in channel : m.ts = message_id /\ m.user = "BOT"
    /\ response = "Ok"
    /\ channel' = {m \in channel : m.ts # message_id}
    /\ deleted' = deleted \cup {message_id}
    /\ UNCHANGED <<db, next_ts, views, pipeline, flows>>

\* A delete follow-up that also removes the entry of the message it deletes
DeleteMessagePurging(user_id, message_id, response) ==
    /\ \E m \in channel : m.ts = message_id
    /\ LET log == fetch_by_message_id(message_id) IN
       IF IsSome(log) /\ ResolveSystem(Unwrap(log)).owner_id = user_id
       THEN /\ response = "Ok"
            /\ channel' = {m \in channel : m.ts # message_id}
            /\ deleted' = deleted \cup {message_id}
            /\ message_logs' = {l \in message_logs : l.message_id # message_id}
       ELSE /\ response = NotByMember
            /\ UNCHANGED <<channel, deleted, message_logs>>
    /\ UNCHANGED <<systems, members, triggers, aliases, next_trigger_id,
                   next_alias_id, next_ts, views, pipeline, flows>>

\* A delete follow-up that does not compare the requester with the owner
DeleteMessageUnowned(user_id, message_id, response) ==
    /\ \E m \in channel : m.ts = message_id
    /\ LET log == fetch_by_message_id(message_id) IN
       IF ~IsSome(log) THEN response = NotByMember /\ UNCHANGED <<channel, deleted>>
       ELSE /\ response = "Ok"
            /\ channel' = {m \in channel : m.ts # message_id}
            /\ deleted' = deleted \cup {message_id}
    /\ UNCHANGED <<db, next_ts, views, pipeline, flows>>

\* interactions::message::delete: the delete message action by user_id
DeleteMessage(user_id, message_id, response) ==
    /\ \E m \in channel : m.ts = message_id
    /\ LET log == fetch_by_message_id(message_id) IN
       \E ok \in BOOLEAN :
         IF ~ok THEN response = "Err" /\ UNCHANGED <<channel, deleted>>
         ELSE IF ~IsSome(log)
         THEN response = NotByMember /\ UNCHANGED <<channel, deleted>>
         ELSE IF ResolveSystem(Unwrap(log)).owner_id # user_id
         THEN response = NotByYourSystem /\ UNCHANGED <<channel, deleted>>
         ELSE /\ response = "Ok"
              /\ channel' = {m \in channel : m.ts # message_id}
              /\ deleted' = deleted \cup {message_id}
    /\ UNCHANGED <<db, next_ts, views, pipeline, flows>>

\* interactions::message::info: the message info action by user_id
Info(user_id, message_id, response) ==
    /\ \E m \in channel : m.ts = message_id
    /\ LET log == fetch_by_message_id(message_id) IN
       \E ok \in BOOLEAN :
         IF ~ok THEN response = "Err"
         ELSE IF ~IsSome(log) THEN response = NotByMember
         ELSE response = "info"
    /\ UNCHANGED <<db, platform, pipeline, flows>>

\* A start_reproxy that opens the form for whoever asks
StartReproxyUnchecked(user_id, message_id, response) ==
    /\ \E m \in channel : m.ts = message_id
    /\ response = "view"
    /\ views' = views_open(View("reproxy", user_id, message_id))
    /\ UNCHANGED <<db, channel, next_ts, deleted, pipeline, flows>>

\* interactions::message::start_reproxy: the reproxy message action by
\* user_id (start_reproxy_log when the message is logged, start_reproxy_user
\* when it is not)
StartReproxy(user_id, message_id, response) ==
    /\ \E m \in channel : m.ts = message_id
    /\ LET log == fetch_by_message_id(message_id)
           message == MessageAt(message_id)
       IN  \E ok \in BOOLEAN :
             IF ~ok THEN response = "Err" /\ UNCHANGED views
             ELSE IF IsSome(log)
             THEN IF ResolveSystem(Unwrap(log)).owner_id # user_id
                  THEN response = NotByYou /\ UNCHANGED views
                  ELSE /\ response = "view"
                       /\ views' = views_open(View("reproxy", user_id, Unwrap(log).message_id))
             ELSE IF message.user # user_id
             THEN response = NotByYou /\ UNCHANGED views
             ELSE IF ~IsSome(fetch_by_user_id(user_id))
             THEN response = SystemNotFound /\ UNCHANGED views
             ELSE /\ response = "view"
                  /\ views' = views_open(View("reproxy", user_id, message_id))
    /\ UNCHANGED <<db, channel, next_ts, deleted, pipeline, flows>>

\* conversations_history with latest = message_id, inclusive, limit 1: the
\* newest message of the channel that is not newer than message_id
conversations_history(message_id) ==
    {m \in channel : m.ts <= message_id /\ \A x \in channel : x.ts <= message_id => x.ts <= m.ts}

\* interactions::message::reproxy: the reproxy form submitted by user_id
\* with the chosen member; fails is the call that fails, if any
Reproxy(user_id, message_id, member, response) ==
    /\ View("reproxy", user_id, message_id) \in views
    /\ next_ts <= MaxFollowTs
    /\ views' = views \ {View("reproxy", user_id, message_id)}
    /\ LET system == fetch_by_user_id(user_id)
           messages == conversations_history(message_id)
       IN  \E fails \in {"", "sqlx", "history", "post", "delete"} :
             IF member = Null \/ fails = "sqlx"
             THEN response = "Err" /\ UNCHANGED <<channel, next_ts, deleted>>
             ELSE IF ~IsSome(system) \/ ~IsSome(validate_by_system(member, Unwrap(system)))
                     \/ fails = "history" \/ messages = {}
             THEN response = "Ok" /\ UNCHANGED <<channel, next_ts, deleted>>
             ELSE IF fails = "post"
             THEN response = "Err" /\ UNCHANGED <<channel, next_ts, deleted>>
             ELSE LET message == CHOOSE m \in messages : TRUE
                      posted == [ts |-> next_ts, user |-> "BOT", member |-> member,
                                 content |-> message.content, edited |-> FALSE]
                  IN  /\ next_ts' = next_ts + 1
                      /\ IF fails = "delete" \/ ~\E m \in channel : m.ts = message_id
                         THEN /\ response = "Err"
                              /\ channel' = channel \cup {posted}
                              /\ UNCHANGED deleted
                         ELSE /\ response = "Ok"
                              /\ channel' = {m \in channel : m.ts # message_id} \cup {posted}
                              /\ deleted' = deleted \cup {message_id}
    /\ UNCHANGED <<db, pipeline, flows>>

\* A handler of deletion notifications that empties the message log
MessageDeletedAll(deleted_ts, response) ==
    /\ deleted_ts \in deleted
    /\ response = "Ok"
    /\ message_logs' = {}
    /\ UNCHANGED <<systems, members, triggers, aliases, next_trigger_id,
                   next_alias_id, platform, pipeline, flows>>

\* A handler of deletion notifications that answers Ok and deletes nothing
MessageDeletedKeeping(deleted_ts, response) ==
    /\ deleted_ts \in deleted
    /\ response = "Ok"
    /\ UNCHANGED <<db, platform, pipeline, flows>>

\* push_event_callback on a message_deleted event:
\* MessageLog::delete_by_message_id
MessageDeleted(deleted_ts, response) ==
    /\ deleted_ts \in deleted
    /\ \E ok \in BOOLEAN :
         IF ok
         THEN /\ response = "Ok"
              /\ message_logs' = {l \in message_logs : l.message_id # deleted_ts}
         ELSE /\ response = "Err"
              /\ UNCHANGED message_logs
    /\ UNCHANGED <<systems, members, triggers, aliases, next_trigger_id,
                   next_alias_id, platform, pipeline, flows>>

\* ---------------------------------------------------------------- commands
\* References to members a user can type: ids (one of them of no member)
\* and aliases
sRae == <<"r", "a", "e">>
s12 == <<"1", "2">>
AliasTexts == {sRae, s12}
NoRef == [kind |-> "Id", id |-> Null, alias |-> sEmpty]
MemberRefs ==
    {[kind |-> "Id", id |-> i, alias |-> sEmpty] : i \in 1..(Len(members) + 1)}
      \cup {[kind |-> "Alias", id |-> Null, alias |-> a] : a \in {sRae}}

\* str::parse::<i64>().is_ok() on the strings of the model
Digits == {"0", "1", "2", "3", "4", "5", "6", "7", "8", "9"}
ParsesAsInteger(s) ==
    LET body == IF s # <<>> /\ Head(s) \in {"+", "-"} THEN Tail(s) ELSE s
    IN  body # <<>> /\ \A i \in DOMAIN body : body[i] \in Digits

\* str::parse::<i64>() on the strings of the model: the value of a string
\* that parses
DigitValue(c) == CHOOSE n \in 0..9 : <<"0", "1", "2", "3", "4", "5", "6", "7", "8", "9">>[n + 1] = c
RECURSIVE ParseDigits(_)
ParseDigits(body) ==
    IF body = <<>> THEN 0
    ELSE 10 * ParseDigits(SubSeq(body, 1, Len(body) - 1)) + DigitValue(body[Len(body)])
ParseInteger(str) ==
    IF Head(str) = "-" THEN 0 - ParseDigits(Tail(str))
    ELSE IF Head(str) = "+" THEN ParseDigits(Tail(str))
    ELSE ParseDigits(str)

\* A from_str that takes any text starting with a digit for an id
MemberRef_from_leading_digit(str) ==
    IF str # <<>> /\ Head(str) \in Digits
    THEN [kind |-> "Id", id |-> DigitValue(Head(str)), alias |-> sEmpty]
    ELSE [kind |-> "Alias", id |-> Null, alias |-> str]

\* impl FromStr for MemberRef
MemberRef_from_str(str) ==
    IF ParsesAsInteger(str)
    THEN [kind |-> "Id", id |-> ParseInteger(str), alias |-> sEmpty]
    ELSE [kind |-> "Alias", id |-> Null, alias |-> str]

\* member::Id<Trusted>::set_enabled
set_enabled(member_id, value) ==
    [members EXCEPT ![member_id].enabled = value]

\* A fetch whose WHERE clause lost "AND system_id = $2"
fetch_and_trust_any_system(system_id, member_id) ==
    IF member_id \in MemberIds THEN Some(member_id) ELSE None

\* Member::fetch_by_and_trust_id
fetch_by_and_trust_id(system_id, member_id) ==
    IF member_id \in MemberIds /\ members[member_id].system_id = system_id
    THEN Some(member_id)
    ELSE None

\* A trigger validation whose query lost "AND system_id = $2"
trigger_validate_ignoring_system(id, system_id) ==
    IF \E t \in triggers : t.id = id THEN Some(id) ELSE None

\* trigger::Id<Untrusted>::validate_by_system (fetch_one: Err when no row)
trigger_validate_by_system(id, system_id) ==
    IF \E t \in triggers : t.id = id /\ t.system_id = system_id
    THEN Some(id)
    ELSE None

\* alias::Id<Untrusted>::validate_by_system
alias_validate_by_system(id, system_id) ==
    IF \E a \in aliases : a.id = id /\ a.system_id = system_id
    THEN Some(id)
    ELSE None

\* impl From<SlackViewState> for trigger::View, on the state of the form
\* View::create_blocks builds: the text input has action id "trigger_text",
\* the radio buttons have action id "type"
TriggerViewFrom(form) ==
    LET default == [text |-> sEmpty, typ |-> "Prefix"]
        v1 == IF "trigger_text" \in DOMAIN form
              THEN [default EXCEPT !.text = form["trigger_text"]]
              ELSE default
    IN  IF "typ" \in DOMAIN form /\ form["typ"] \in {"suffix", "prefix"}
        THEN [v1 EXCEPT !.typ = IF form["typ"] = "suffix" THEN "Suffix" ELSE "Prefix"]
        ELSE v1

\* The view state Slack submits for the trigger form: the chosen radio
\* option's value is Type::to_string()
TriggerForm(text, typ) == [trigger_text |-> text, type |-> typ]

\* Member::fetch_by_id: the row of a member
Member_fetch_by_id(member_id) ==
    [id |-> member_id,
     system_id |-> members[member_id].system_id,
     display_name |-> members[member_id].display_name]

\* The answers of /members switch: an error, a notice, or the confirmation
\* with the member change_fronting_member returned
NoSystemYet == "You don't have a system yet!"
MemberNotFound == "The member does not exist!"
MemberDisabled == "The member you're trying to switch to is disabled!"
SwitchedToBase == "Switched to base account"
SwitchToMember == "Switch to member"
SwitchErr == [ok |-> FALSE, text |-> "Sqlx", member |-> None]
SwitchNotice(text) == [ok |-> TRUE, text |-> text, member |-> None]
Switched(new_member) ==
    [ok |-> TRUE,
     text |-> IF IsSome(new_member) THEN SwitchToMember ELSE SwitchedToBase,
     member |-> new_member]

\* Member::switch_member: the systems table and the answer it may end with;
\* a query that fails ends the command with an error before the UPDATE
switch_member(user_id, base, ref) ==
    LET sys == fetch_by_user_id(user_id) IN
      {[systems |-> systems, response |-> SwitchErr]} \cup
      IF ~IsSome(sys)
      THEN {[systems |-> systems, response |-> SwitchNotice(NoSystemYet)]}
      ELSE IF base
      THEN {[systems |-> change_fronting_member(Unwrap(sys), Null),
             response |-> Switched(None)]}
      ELSE {IF ~IsSome(v)
            THEN [systems |-> systems, response |-> SwitchNotice(MemberNotFound)]
            ELSE IF ~enabled(Unwrap(v))
            THEN [systems |-> systems, response |-> SwitchNotice(MemberDisabled)]
            ELSE [systems |-> change_fronting_member(Unwrap(sys), Unwrap(v)),
                  response |-> Switched(Some(Member_fetch_by_id(Unwrap(v))))] :
              v \in MemberRef_validate_by_system(ref, Unwrap(sys))}

\* /members switch ending as o, one of the results of switch_member
SwitchMemberAs(o) ==
    /\ systems' = o.systems
    /\ UNCHANGED <<members, triggers, aliases, message_logs, next_trigger_id,
                   next_alias_id, platform, pipeline, flows>>

\* /members switch
SwitchMember(user_id, base, ref) ==
    \E o \in switch_member(user_id, base, ref) : SwitchMemberAs(o)

\* /members disable
Disable(user_id, ref) ==
    /\ LET sys == fetch_by_user_id(user_id) IN
       \E ok \in BOOLEAN :
         IF ~IsSome(sys) \/ ~ok THEN UNCHANGED members
         ELSE \E v \in MemberRef_validate_by_system(ref, Unwrap(sys)) :
                IF ~IsSome(v) THEN UNCHANGED members
                ELSE IF ~enabled(Unwrap(v)) THEN UNCHANGED members
                ELSE IF systems[Unwrap(sys)].currently_fronting_member_id = Unwrap(v)
                     THEN UNCHANGED members
                ELSE members' = set_enabled(Unwrap(v), FALSE)
    /\ UNCHANGED <<systems, triggers, aliases, message_logs, next_trigger_id,
                   next_alias_id, platform, pipeline, flows>>

\* /members enable
Enable(user_id, id) ==
    /\ LET sys == fetch_by_user_id(user_id) IN
       \E ok \in BOOLEAN :
         IF ~IsSome(sys) \/ ~ok THEN UNCHANGED members
         ELSE LET v == validate_by_system(id, Unwrap(sys)) IN
              IF ~IsSome(v) THEN UNCHANGED members
              ELSE IF enabled(Unwrap(v)) THEN UNCHANGED members
              ELSE members' = set_enabled(Unwrap(v), TRUE)
    /\ UNCHANGED <<systems, triggers, aliases, message_logs, next_trigger_id,
                   next_alias_id, platform, pipeline, flows>>

\* The edit-member form submitted by user_id with external id edit_member_<id>
EditMember(user_id, id, display_name) ==
    /\ \E ok \in BOOLEAN :
         LET v == validate_by_user(id, user_id) IN
         IF ~ok \/ ~IsSome(v) \/ display_name = "" THEN UNCHANGED members
         ELSE members' = [members EXCEPT ![Unwrap(v)].display_name = display_name]
    /\ UNCHANGED <<systems, triggers, aliases, message_logs, next_trigger_id,
                   next_alias_id, platform, pipeline, flows>>

\* The create-member form submitted by user_id
CreateMember(user_id, display_name) ==
    /\ Len(members) < MaxMembers
    /\ LET sys == fetch_by_user_id(user_id) IN
       \E ok \in BOOLEAN :
         IF display_name = "" \/ ~ok \/ ~IsSome(sys) THEN UNCHANGED members
         ELSE members' = Append(members, [system_id |-> Unwrap(sys), enabled |-> TRUE,
                                          display_name |-> display_name])
    /\ UNCHANGED <<systems, triggers, aliases, message_logs, next_trigger_id,
                   next_alias_id, platform, pipeline, flows>>

\* /triggers add and the trigger form's submission
CreateTrigger(user_id, member_id, text, typ) ==
    /\ next_trigger_id <= MaxTriggers
    /\ LET sys == fetch_by_user_id(user_id) IN
       \E ok \in BOOLEAN :
         IF ~IsSome(sys) \/ ~ok THEN UNCHANGED <<triggers, next_trigger_id>>
         ELSE LET v == fetch_by_and_trust_id(Unwrap(sys), member_id)
                  data == TriggerViewFrom(TriggerForm(text, typ))
              IN  IF ~IsSome(v) THEN UNCHANGED <<triggers, next_trigger_id>>
                  ELSE /\ triggers' = triggers \cup
                             {[id |-> next_trigger_id, member_id |-> Unwrap(v),
                               system_id |-> Unwrap(sys), text |-> data.text,
                               typ |-> data.typ]}
                       /\ next_trigger_id' = next_trigger_id + 1
    /\ UNCHANGED <<systems, members, aliases, message_logs, next_alias_id,
                   platform, pipeline, flows>>

\* /triggers delete
DeleteTrigger(user_id, trigger_id) ==
    /\ LET sys == fetch_by_user_id(user_id) IN
       \E ok \in BOOLEAN :
         IF ~IsSome(sys) \/ ~ok THEN UNCHANGED triggers
         ELSE LET v == trigger_validate_by_system(trigger_id, Unwrap(sys)) IN
              IF ~IsSome(v) THEN UNCHANGED triggers
              ELSE triggers' = {t \in triggers : t.id # Unwrap(v)}
    /\ UNCHANGED <<systems, members, aliases, message_logs, next_trigger_id,
                   next_alias_id, platform, pipeline, flows>>

\* /triggers edit and the trigger form's submission
EditTrigger(user_id, trigger_id, text, typ) ==
    /\ LET sys == fetch_by_user_id(user_id) IN
       \E ok \in BOOLEAN :
         IF ~IsSome(sys) \/ ~ok THEN UNCHANGED triggers
         ELSE LET v == trigger_validate_by_system(trigger_id, Unwrap(sys))
                  data == TriggerViewFrom(TriggerForm(text, typ))
              IN  IF ~IsSome(v) THEN UNCHANGED triggers
                  ELSE triggers' = {IF t.id = Unwrap(v)
                                    THEN [t EXCEPT !.text = data.text, !.typ = data.typ]
                                    ELSE t : t \in triggers}
    /\ UNCHANGED <<systems, members, aliases, message_logs, next_trigger_id,
                   next_alias_id, platform, pipeline, flows>>

\* /aliases add
CreateAlias(user_id, ref, alias) ==
    /\ next_alias_id <= MaxAliases
    /\ LET sys == fetch_by_user_id(user_id) IN
       \E ok \in BOOLEAN :
         IF ~IsSome(sys) \/ ~ok THEN UNCHANGED <<aliases, next_alias_id>>
         ELSE \E v \in MemberRef_validate_by_system(ref, Unwrap(sys)) :
                IF ~IsSome(v) \/ ParsesAsInteger(alias)
                THEN UNCHANGED <<aliases, next_alias_id>>
                ELSE /\ aliases' = aliases \cup
                           {[id |-> next_alias_id, member_id |-> Unwrap(v),
                             system_id |-> Unwrap(sys), alias |-> alias]}
                     /\ next_alias_id' = next_alias_id + 1
    /\ UNCHANGED <<systems, members, triggers, message_logs, next_trigger_id,
                   platform, pipeline, flows>>

\* /aliases delete
DeleteAlias(user_id, alias_id) ==
    /\ LET sys == fetch_by_user_id(user_id) IN
       \E ok \in BOOLEAN :
         IF ~IsSome(sys) \/ ~ok THEN UNCHANGED aliases
         ELSE LET v == alias_validate_by_system(alias_id, Unwrap(sys)) IN
              IF ~IsSome(v) THEN UNCHANGED aliases
              ELSE aliases' = {a \in aliases : a.id # Unwrap(v)}
    /\ UNCHANGED <<systems, members, triggers, message_logs, next_trigger_id,
                   next_alias_id, platform, pipeline, flows>>

\* /aliases edit
EditAlias(user_id, alias_id, new_alias) ==
    /\ LET sys == fetch_by_user_id(user_id) IN
       \E ok \in BOOLEAN :
         IF ~IsSome(sys) \/ ~ok THEN UNCHANGED aliases
         ELSE LET v == alias_validate_by_system(alias_id, Unwrap(sys)) IN
              IF ~IsSome(v) THEN UNCHANGED aliases
              ELSE aliases' = {IF a.id = Unwrap(v) THEN [a EXCEPT !.alias = new_alias]
                               ELSE a : a \in aliases}
    /\ UNCHANGED <<systems, members, triggers, message_logs, next_trigger_id,
                   next_alias_id, platform, pipeline, flows>>

\* --------------------------------------------------------- specifications
Names == {"X"}

\* The switch command as the substitution pipeline's environment
CmdSwitchMember ==
    \E u \in Users, target \in {None} \cup {Some(r) : r \in MemberRefs} :
      /\ SwitchMember(u, target = None, IF target = None THEN NoRef ELSE Unwrap(target))
      /\ UNCHANGED ret

\* The follow-ups on reposted messages as the pipeline's environment
EnvStartEdit ==
    \E u \in Users, t \in Timestamps, r \in Responses :
      StartEdit(u, t, r) /\ UNCHANGED ret

EnvEditMessage ==
    \E u \in Users, t \in Timestamps, r \in Responses :
      EditMessage(u, t, sEdited, r) /\ UNCHANGED ret

EnvDeleteMessage ==
    \E u \in Users, t \in Timestamps, r \in Responses :
      DeleteMessage(u, t, r) /\ UNCHANGED ret

EnvMessageDeleted ==
    \E t \in Timestamps, r \in Responses :
      MessageDeleted(t, r) /\ UNCHANGED ret

Next ==
    \/ \E u \in Users, c \in Contents : HandleMessage(u, c)
    \/ FindMember
    \/ AutoSwitch
    \/ PostAsMember
    \/ InsertLog
    \/ DeleteOriginal
    \/ EnvStartEdit
    \/ EnvEditMessage
    \/ EnvDeleteMessage
    \/ EnvMessageDeleted
    \/ CmdSwitchMember

Spec == Init /\ [][Next]_vars

\* The commands and forms on their own, over a store of one member per
\* system, each leaving in ret who asked and whether what they typed names
\* a row of a system that is not theirs
Outcome(user_id, foreign) ==
    [op |-> "command", user |-> user_id, foreign |-> foreign, arg |-> <<>>, result |-> None]

SystemOf(user_id) ==
    IF IsSome(fetch_by_user_id(user_id)) THEN Unwrap(fetch_by_user_id(user_id)) ELSE Null

ForeignMember(user_id, id) ==
    id \in MemberIds /\ members[id].system_id # SystemOf(user_id)

ForeignRef(user_id, ref) ==
    \/ ref.kind = "Id" /\ ForeignMember(user_id, ref.id)
    \/ /\ ref.kind = "Alias"
       /\ \E a \in aliases : a.alias = ref.alias /\ a.system_id # SystemOf(user_id)

ForeignTrigger(user_id, id) ==
    \E t \in triggers : t.id = id /\ t.system_id # SystemOf(user_id)

ForeignAlias(user_id, id) ==
    \E a \in aliases : a.id = id /\ a.system_id # SystemOf(user_id)

InitTenant ==
    /\ systems = [s \in {1, 2} |->
                    [owner_id |-> IF s = 1 THEN "U1" ELSE "U2",
                     currently_fronting_member_id |-> Null,
                     auto_switch_on_trigger |-> FALSE]]
    /\ members = <<[system_id |-> 1, enabled |-> TRUE, display_name |-> "A"],
                   [system_id |-> 2, enabled |-> TRUE, display_name |-> "C"]>>
    /\ triggers = {[id |-> 1, member_id |-> 1, system_id |-> 1,
                     text |-> sB, typ |-> "Suffix"]}
    /\ aliases = {}
    /\ message_logs = {}
    /\ next_trigger_id = 2
    /\ next_alias_id = 1
    /\ channel = {}
    /\ next_ts = 1
    /\ deleted = {}
    /\ run = IdleRun
    /\ calls = [t \in Timestamps |-> <<>>]
    /\ done = [t \in Timestamps |-> NotDone]
    /\ errlog = {}
    /\ ret = NoRet
    /\ switching = NoSwitching
    /\ system_oauth_process = {}
    /\ views = {}

TenantSwitchMember ==
    \E u \in Users, ref \in MemberRefs :
      /\ SwitchMember(u, FALSE, ref)
      /\ ret' = Outcome(u, ForeignRef(u, ref))

TenantSwitchBase ==
    \E u \in Users :
      /\ SwitchMember(u, TRUE, NoRef)
      /\ ret' = Outcome(u, FALSE)

TenantDisable ==
    \E u \in Users, ref \in MemberRefs :
      /\ Disable(u, ref)
      /\ ret' = Outcome(u, ForeignRef(u, ref))

TenantEnable ==
    \E u \in Users, id \in 1..(Len(members) + 1) :
      /\ Enable(u, id)
      /\ ret' = Outcome(u, ForeignMember(u, id))

TenantEditMember ==
    \E u \in Users, id \in 1..(Len(members) + 1), name \in Names :
      /\ EditMember(u, id, name)
      /\ ret' = Outcome(u, ForeignMember(u, id))

TenantDeleteTrigger ==
    \E u \in Users, id \in 1..MaxTriggers :
      /\ DeleteTrigger(u, id)
      /\ ret' = Outcome(u, ForeignTrigger(u, id))

TenantCreateAlias ==
    \E u \in Users, ref \in MemberRefs, a \in AliasTexts :
      /\ CreateAlias(u, ref, a)
      /\ ret' = Outcome(u, ForeignRef(u, ref))

TenantDeleteAlias ==
    \E u \in Users, id \in 1..MaxAliases :
      /\ DeleteAlias(u, id)
      /\ ret' = Outcome(u, ForeignAlias(u, id))

TenantEditAlias ==
    \E u \in Users, id \in 1..MaxAliases, a \in AliasTexts :
      /\ EditAlias(u, id, a)
      /\ ret' = Outcome(u, ForeignAlias(u, id))

NextTenant ==
    \/ TenantSwitchMember
    \/ TenantSwitchBase
    \/ TenantDisable
    \/ TenantEnable
    \/ TenantEditMember
    \/ TenantDeleteTrigger
    \/ TenantCreateAlias
    \/ TenantDeleteAlias
    \/ TenantEditAlias

SpecTenant == InitTenant /\ [][NextTenant]_vars

\* Validation of untrusted member ids, over the stores that creating
\* members builds
InitValidate ==
    /\ systems = [s \in {1, 2} |->
                    [owner_id |-> IF s = 1 THEN "U1" ELSE "U2",
                     currently_fronting_member_id |-> Null,
                     auto_switch_on_trigger |-> FALSE]]
    /\ members = <<>>
    /\ triggers = {}
    /\ aliases = {}
    /\ message_logs = {}
    /\ next_trigger_id = 1
    /\ next_alias_id = 1
    /\ channel = {}
    /\ next_ts = 1
    /\ deleted = {}
    /\ run = IdleRun
    /\ calls = [t \in Timestamps |-> <<>>]
    /\ done = [t \in Timestamps |-> NotDone]
    /\ errlog = {}
    /\ ret = NoRet
    /\ switching = NoSwitching
    /\ system_oauth_process = {}
    /\ views = {}

FormCreateMember ==
    \E u \in Users, name \in Names \cup {""} :
      /\ CreateMember(u, name)
      /\ ret' = Outcome(u, FALSE)

\* A caller validates an untrusted member id against a system id
Validate ==
    \E id \in 0..(MaxMembers + 1), system_id \in 1..(Len(systems) + 1), ok \in BOOLEAN :
      /\ ret' = IF ok
                THEN [op |-> "validate_by_system", user |-> "", foreign |-> FALSE,
                      arg |-> <<id, system_id>>,
                      result |-> validate_by_system(id, system_id)]
                ELSE [op |-> "validate_by_system: sqlx::Error", user |-> "",
                      foreign |-> FALSE, arg |-> <<id, system_id>>, result |-> None]
      /\ UNCHANGED <<db, platform, pipeline, flows>>

NextValidate ==
    \/ FormCreateMember
    \/ Validate

SpecValidate == InitValidate /\ [][NextValidate]_vars

\* The follow-up actions on their own: message 1 was reposted as member 1
\* and is logged, the repost 2 (as member 2) was deleted and its deletion is
\* yet to be notified, message 3 is an unproxied message of U2 or U3
Answer(op, user_id, message_id, response) ==
    [op |-> op, user |-> user_id, foreign |-> FALSE, arg |-> <<message_id>>,
     result |-> <<response>>]

InitFollowUp ==
    /\ systems = [s \in {1, 2} |->
                    [owner_id |-> IF s = 1 THEN "U1" ELSE "U2",
                     currently_fronting_member_id |-> Null,
                     auto_switch_on_trigger |-> FALSE]]
    /\ members = <<[system_id |-> 1, enabled |-> TRUE, display_name |-> "A"],
                   [system_id |-> 2, enabled |-> TRUE, display_name |-> "C"]>>
    /\ triggers = {}
    /\ aliases = {}
    /\ message_logs = {[member_id |-> 1, message_id |-> 1],
                       [member_id |-> 2, message_id |-> 2]}
    /\ next_trigger_id = 1
    /\ next_alias_id = 1
    /\ \E u \in {"U2", "U3"} :
         channel = {[ts |-> 1, user |-> "BOT", member |-> 1,
                     content |-> [text |-> Some(sHi), blocks |-> None], edited |-> FALSE],
                    [ts |-> 3, user |-> u, member |-> Null,
                     content |-> [text |-> Some(sHi), blocks |-> None], edited |-> FALSE]}
    /\ next_ts = 4
    /\ deleted = {2}
    /\ views = {}
    /\ run = IdleRun
    /\ calls = [t \in Timestamps |-> <<>>]
    /\ done = [t \in Timestamps |-> NotDone]
    /\ errlog = {}
    /\ ret = NoRet
    /\ switching = NoSwitching
    /\ system_oauth_process = {}

FollowStartEdit ==
    \E u \in Users, t \in FollowIds, r \in Responses :
      StartEdit(u, t, r) /\ ret' = Answer("start_edit", u, t, r)

FollowEdit ==
    \E u \in Users, t \in FollowIds, text \in {sEdited, sEmpty}, r \in Responses :
      EditMessage(u, t, text, r) /\ ret' = Answer("edit", u, t, r)

FollowStartReproxy ==
    \E u \in Users, t \in FollowIds, r \in Responses :
      StartReproxy(u, t, r) /\ ret' = Answer("start_reproxy", u, t, r)

FollowReproxy ==
    \E u \in Users, t \in FollowIds, m \in {Null} \cup MemberIds, r \in Responses :
      Reproxy(u, t, m, r) /\ ret' = Answer("reproxy", u, t, r)

FollowDelete ==
    \E u \in Users, t \in FollowIds, r \in Responses :
      DeleteMessage(u, t, r) /\ ret' = Answer("delete", u, t, r)

FollowInfo ==
    \E u \in Users, t \in FollowIds, r \in Responses :
      Info(u, t, r) /\ ret' = Answer("info", u, t, r)

FollowMessageDeleted ==
    \E t \in FollowIds, r \in Responses :
      MessageDeleted(t, r) /\ ret' = Answer("message_deleted", "", t, r)

NextFollowUp ==
    \/ FollowStartEdit
    \/ FollowEdit
    \/ FollowStartReproxy
    \/ FollowReproxy
    \/ FollowDelete
    \/ FollowInfo
    \/ FollowMessageDeleted

SpecFollowUp == InitFollowUp /\ [][NextFollowUp]_vars

\* Every follow-up action and the commands on members together, over the
\* same store and channel
LogStartEdit ==
    \E u \in Users, t \in FollowIds, r \in Responses :
      StartEdit(u, t, r) /\ UNCHANGED ret

LogEditMessage ==
    \E u \in Users, t \in FollowIds, r \in Responses :
      EditMessage(u, t, sEdited, r) /\ UNCHANGED ret

LogStartReproxy ==
    \E u \in Users, t \in FollowIds, r \in Responses :
      StartReproxy(u, t, r) /\ UNCHANGED ret

LogReproxy ==
    \E u \in Users, t \in FollowIds, m \in MemberIds, r \in Responses :
      Reproxy(u, t, m, r) /\ UNCHANGED ret

LogDeleteMessage ==
    \E u \in Users, t \in FollowIds, r \in Responses :
      DeleteMessage(u, t, r) /\ UNCHANGED ret

LogInfo ==
    \E u \in Users, t \in FollowIds, r \in Responses :
      Info(u, t, r) /\ UNCHANGED ret

LogMessageDeleted ==
    \E t \in FollowIds, r \in Responses :
      MessageDeleted(t, r) /\ UNCHANGED ret

NextLog ==
    \/ LogStartEdit
    \/ LogEditMessage
    \/ LogStartReproxy
    \/ LogReproxy
    \/ LogDeleteMessage
    \/ LogInfo
    \/ LogMessageDeleted
    \/ TenantSwitchMember
    \/ TenantSwitchBase
    \/ TenantDisable
    \/ TenantEnable

SpecLog == InitFollowUp /\ [][NextLog]_vars

\* The switch command with its answers, over a store with an alias and
\* members that are disabled and enabled again
InitSwitch ==
    /\ systems = [s \in {1, 2} |->
                    [owner_id |-> IF s = 1 THEN "U1" ELSE "U2",
                     currently_fronting_member_id |-> Null,
                     auto_switch_on_trigger |-> FALSE]]
    /\ members = <<[system_id |-> 1, enabled |-> TRUE, display_name |-> "A"],
                   [system_id |-> 1, enabled |-> TRUE, display_name |-> "B"],
                   [system_id |-> 2, enabled |-> TRUE, display_name |-> "C"]>>
    /\ triggers = {}
    /\ aliases = {[id |-> 1, member_id |-> 2, system_id |-> 1, alias |-> sRae]}
    /\ message_logs = {}
    /\ next_trigger_id = 1
    /\ next_alias_id = 2
    /\ channel = {}
    /\ next_ts = 1
    /\ deleted = {}
    /\ views = {}
    /\ run = IdleRun
    /\ calls = [t \in Timestamps |-> <<>>]
    /\ done = [t \in Timestamps |-> NotDone]
    /\ errlog = {}
    /\ ret = NoRet
    /\ switching = NoSwitching
    /\ system_oauth_process = {}

SwitchAnswer(user_id, target, response) ==
    [op |-> "switch", user |-> user_id, foreign |-> FALSE,
     arg |-> <<target>>, result |-> <<response>>]

SwitchToRef ==
    \E u \in Users, ref \in MemberRefs :
      \E o \in switch_member(u, FALSE, ref) :
        /\ SwitchMemberAs(o)
        /\ ret' = SwitchAnswer(u, Some(ref), o.response)

SwitchToBase ==
    \E u \in Users :
      \E o \in switch_member(u, TRUE, NoRef) :
        /\ SwitchMemberAs(o)
        /\ ret' = SwitchAnswer(u, None, o.response)

NextSwitch ==
    \/ SwitchToRef
    \/ SwitchToBase
    \/ TenantDisable
    \/ TenantEnable

SpecSwitch == InitSwitch /\ [][NextSwitch]_vars

\* ------------------------------------------------- switches run together
\* Two /members switch commands served at the same time. switch_member
\* awaits its queries one after the other, so another command's queries can
\* run between them: a command is validated (fetch_system!, fetch_member!,
\* enabled), then change_fronting_member fetches the member, executes the
\* UPDATE and the answer is built. Nothing here writes what the validating
\* queries read.
SwitchProcs == {1, 2}
IdleSwitch ==
    [pc |-> "idle", user |-> "", system |-> Null, target |-> Null,
     applied |-> 0, response |-> None]

\* The place of the latest UPDATE among those executed so far
LastApplied ==
    LET n == {switching[q].applied : q \in SwitchProcs}
    IN  CHOOSE k \in n : \A j \in n : j <= k

SwitchEnds(p, user_id, response) ==
    switching' = [switching EXCEPT ![p] =
                    [IdleSwitch EXCEPT !.pc = "done", !.user = user_id,
                                       !.response = Some(response)]]

\* switch_member up to its call of change_fronting_member
SwitchValidate(p, user_id, base, ref) ==
    /\ switching[p].pc = "idle"
    /\ LET sys == fetch_by_user_id(user_id)
           calls_update(new_active_member_id) ==
             switching' = [switching EXCEPT ![p] =
                             [IdleSwitch EXCEPT !.pc = "update", !.user = user_id,
                                                !.system = Unwrap(sys),
                                                !.target = new_active_member_id]]
       IN  \E ok \in BOOLEAN :
             IF ~ok THEN SwitchEnds(p, user_id, SwitchErr)
             ELSE IF ~IsSome(sys) THEN SwitchEnds(p, user_id, SwitchNotice(NoSystemYet))
             ELSE IF base THEN calls_update(Null)
             ELSE \E v \in MemberRef_validate_by_system(ref, Unwrap(sys)) :
                    IF ~IsSome(v)
                    THEN SwitchEnds(p, user_id, SwitchNotice(MemberNotFound))
                    ELSE IF ~enabled(Unwrap(v))
                    THEN SwitchEnds(p, user_id, SwitchNotice(MemberDisabled))
                    ELSE calls_update(Unwrap(v))
    /\ UNCHANGED <<db, platform, pipeline, system_oauth_process>>

\* An UPDATE that is skipped when another switch of the system got in first
SwitchUpdateKeepingFirst(p) ==
    /\ switching[p].pc = "update"
    /\ LET r == switching[p] IN
       /\ systems' =
            IF \E q \in SwitchProcs : switching[q].system = r.system
                                        /\ switching[q].applied > 0
            THEN systems
            ELSE change_fronting_member(r.system, r.target)
       /\ switching' = [switching EXCEPT ![p] =
            [r EXCEPT !.pc = "done", !.applied = LastApplied + 1,
                      !.response = Some(Switched(IF r.target = Null THEN None
                                   ELSE Some(Member_fetch_by_id(r.target))))]]
    /\ UNCHANGED <<members, triggers, aliases, message_logs, next_trigger_id,
                   next_alias_id, platform, pipeline, system_oauth_process>>

\* change_fronting_member and the answer of switch_member: the member is
\* fetched, the UPDATE is executed whatever the row holds, and a statement
\* that fails ends the command with an error
SwitchUpdate(p) ==
    /\ switching[p].pc = "update"
    /\ LET r == switching[p] IN
       \E ok \in BOOLEAN :
         IF ~ok
         THEN /\ switching' = [switching EXCEPT ![p] =
                   [r EXCEPT !.pc = "done", !.response = Some(SwitchErr)]]
              /\ UNCHANGED systems
         ELSE /\ systems' = change_fronting_member(r.system, r.target)
              /\ switching' = [switching EXCEPT ![p] =
                   [r EXCEPT !.pc = "done", !.applied = LastApplied + 1,
                             !.response = Some(Switched(IF r.target = Null THEN None
                                          ELSE Some(Member_fetch_by_id(r.target))))]]
    /\ UNCHANGED <<members, triggers, aliases, message_logs, next_trigger_id,
                   next_alias_id, platform, pipeline, system_oauth_process>>

InitRace ==
    /\ systems = [s \in {1, 2} |->
                    [owner_id |-> IF s = 1 THEN "U1" ELSE "U2",
                     currently_fronting_member_id |-> Null,
                     auto_switch_on_trigger |-> FALSE]]
    /\ members = <<[system_id |-> 1, enabled |-> TRUE, display_name |-> "A"],
                   [system_id |-> 1, enabled |-> TRUE, display_name |-> "B"],
                   [system_id |-> 2, enabled |-> TRUE, display_name |-> "C"]>>
    /\ triggers = {}
    /\ aliases = {[id |-> 1, member_id |-> 2, system_id |-> 1, alias |-> sRae]}
    /\ message_logs = {}
    /\ next_trigger_id = 1
    /\ next_alias_id = 2
    /\ channel = {}
    /\ next_ts = 1
    /\ deleted = {}
    /\ views = {}
    /\ run = IdleRun
    /\ calls = [t \in Timestamps |-> <<>>]
    /\ done = [t \in Timestamps |-> NotDone]
    /\ errlog = {}
    /\ ret = NoRet
    /\ switching = [p \in SwitchProcs |-> IdleSwitch]
    /\ system_oauth_process = {}

RaceValidate ==
    \E p \in SwitchProcs, u \in Users,
       target \in {None} \cup {Some(r) : r \in MemberRefs} :
      /\ SwitchValidate(p, u, target = None,
                        IF target = None THEN NoRef ELSE Unwrap(target))
      /\ UNCHANGED ret

RaceUpdate ==
    \E p \in SwitchProcs : SwitchUpdate(p) /\ UNCHANGED ret

NextRace ==
    \/ RaceValidate
    \/ RaceUpdate

SpecRace == InitRace /\ [][NextRace]_vars

\* /members disable next to the switch command, each handled in its own
\* task: disable up to its call of set_enabled, and that call
AlreadyDisabled == "Member is already disabled"
CannotDisableFronting == "Cannot disable the currently fronting member."
MemberDisabledNow == "Member disabled"

DisableCheck(p, user_id, ref) ==
    /\ switching[p].pc = "idle"
    /\ LET sys == fetch_by_user_id(user_id) IN
       \E ok \in BOOLEAN :
         IF ~ok THEN SwitchEnds(p, user_id, SwitchErr)
         ELSE IF ~IsSome(sys) THEN SwitchEnds(p, user_id, SwitchNotice(NoSystemYet))
         ELSE \E v \in MemberRef_validate_by_system(ref, Unwrap(sys)) :
                IF ~IsSome(v)
                THEN SwitchEnds(p, user_id, SwitchNotice(MemberNotFound))
                ELSE IF ~enabled(Unwrap(v))
                THEN SwitchEnds(p, user_id, SwitchNotice(AlreadyDisabled))
                ELSE IF systems[Unwrap(sys)].currently_fronting_member_id = Unwrap(v)
                THEN SwitchEnds(p, user_id, SwitchNotice(CannotDisableFronting))
                ELSE switching' = [switching EXCEPT ![p] =
                       [IdleSwitch EXCEPT !.pc = "set_enabled", !.user = user_id,
                                          !.system = Unwrap(sys), !.target = Unwrap(v)]]
    /\ UNCHANGED <<db, platform, pipeline, system_oauth_process>>

DisableUpdate(p) ==
    /\ switching[p].pc = "set_enabled"
    /\ LET r == switching[p] IN
       \E ok \in BOOLEAN :
         /\ members' = IF ok THEN set_enabled(r.target, FALSE) ELSE members
         /\ switching' = [switching EXCEPT ![p] =
              [r EXCEPT !.pc = "done",
                        !.response = Some(IF ok THEN SwitchNotice(MemberDisabledNow)
                                          ELSE SwitchErr)]]
    /\ UNCHANGED <<systems, triggers, aliases, message_logs, next_trigger_id,
                   next_alias_id, platform, pipeline, system_oauth_process>>

RaceDisableCheck ==
    \E p \in SwitchProcs, u \in Users, ref \in MemberRefs :
      DisableCheck(p, u, ref) /\ UNCHANGED ret

RaceDisableUpdate ==
    \E p \in SwitchProcs : DisableUpdate(p) /\ UNCHANGED ret

NextFronting ==
    \/ RaceValidate
    \/ RaceUpdate
    \/ RaceDisableCheck
    \/ RaceDisableUpdate

SpecFronting == InitRace /\ [][NextFronting]_vars

\* ------------------------------------------------------ system creation
\* CsrfToken::new_random: tokens are told apart, and a new one differs from
\* those of the processes that are waiting
CsrfTokens == {"c1", "c2", "c3"}
FreshCsrf == CsrfTokens \ {r.csrf : r \in system_oauth_process}

\* INSERT INTO system_oauth_process ... ON CONFLICT (owner_id) DO UPDATE SET csrf
upsert_oauth_process(owner_id, csrf) ==
    {r \in system_oauth_process : r.owner_id # owner_id}
      \cup {[owner_id |-> owner_id, csrf |-> csrf]}

\* What system creation answers
AlreadyHaveSystem == "You already have a system!"
FinishCreating == "Finish creating your system"
CsrfMismatch == "CSRF token doesn't match the user"
SystemCreated == "System created!"
ErrorCreating == "Error creating system"
CsrfUnknown == "CSRF couldn't be linked to a user."
ErrorFetchingCsrf == "Error fetching CSRF token"
SystemResponses ==
    {"Err", NoSystemYet, AlreadyHaveSystem, FinishCreating, CsrfMismatch,
     SystemCreated, ErrorCreating, CsrfUnknown, ErrorFetchingCsrf}

\* A systems table with no key on the owner
systems_owner_unchecked(owner_id) == TRUE

\* The systems table keyed by owner: a second row of an owner is refused
systems_owner_is_free(owner_id) ==
    ~\E s \in SystemIds : systems[s].owner_id = owner_id

\* /system create
CreateSystem(user_id, csrf, response) ==
    /\ \E ok \in BOOLEAN :
         IF ~ok THEN response = "Err" /\ UNCHANGED system_oauth_process
         ELSE IF IsSome(fetch_by_user_id(user_id))
         THEN response = AlreadyHaveSystem /\ UNCHANGED system_oauth_process
         ELSE /\ system_oauth_process' = upsert_oauth_process(user_id, csrf)
              /\ response = FinishCreating
    /\ UNCHANGED <<db, platform, pipeline, switching>>

\* /system reauth
Reauth(user_id, csrf, response) ==
    /\ LET sys == fetch_by_user_id(user_id) IN
       \E ok \in BOOLEAN :
         IF ~ok THEN response = "Err" /\ UNCHANGED system_oauth_process
         ELSE IF ~IsSome(sys)
         THEN response = NoSystemYet /\ UNCHANGED system_oauth_process
         ELSE /\ system_oauth_process' =
                   upsert_oauth_process(systems[Unwrap(sys)].owner_id, csrf)
              /\ response = FinishCreating
    /\ UNCHANGED <<db, platform, pipeline, switching>>

\* oauth_handler: the callback of the authorization, with the state token
\* of the link and the account that authorized
oauth_handler(state, authed_user, response) ==
    /\ LET found == {r \in system_oauth_process : r.csrf = state} IN
       \E ok \in BOOLEAN :
         IF ~ok
         THEN response = ErrorFetchingCsrf /\ UNCHANGED <<systems, system_oauth_process>>
         ELSE IF found = {}
         THEN response = CsrfUnknown /\ UNCHANGED <<systems, system_oauth_process>>
         ELSE \E record \in found :
                IF authed_user # record.owner_id
                THEN response = CsrfMismatch /\ UNCHANGED <<systems, system_oauth_process>>
                ELSE \E inserted \in BOOLEAN :
                       IF ~inserted \/ ~systems_owner_is_free(record.owner_id)
                       THEN /\ response = ErrorCreating
                            /\ UNCHANGED <<systems, system_oauth_process>>
                       ELSE /\ systems' = Append(systems,
                                            [owner_id |-> record.owner_id,
                                             currently_fronting_member_id |-> Null,
                                             auto_switch_on_trigger |-> FALSE])
                            /\ system_oauth_process' =
                                 {r \in system_oauth_process : r.csrf # state}
                            /\ response = SystemCreated
    /\ UNCHANGED <<members, triggers, aliases, message_logs, next_trigger_id,
                   next_alias_id, platform, pipeline, switching>>

\* An installation with no system yet
InitSystem ==
    /\ systems = <<>>
    /\ members = <<>>
    /\ triggers = {}
    /\ aliases = {}
    /\ message_logs = {}
    /\ next_trigger_id = 1
    /\ next_alias_id = 1
    /\ channel = {}
    /\ next_ts = 1
    /\ deleted = {}
    /\ views = {}
    /\ run = IdleRun
    /\ calls = [t \in Timestamps |-> <<>>]
    /\ done = [t \in Timestamps |-> NotDone]
    /\ errlog = {}
    /\ ret = NoRet
    /\ switching = NoSwitching
    /\ system_oauth_process = {}

SystemAnswer(op, user_id, response) ==
    [op |-> op, user |-> user_id, foreign |-> FALSE, arg |-> <<>>,
     result |-> <<response>>]

SystemCreate ==
    \E u \in Users, c \in FreshCsrf, r \in SystemResponses :
      /\ CreateSystem(u, c, r)
      /\ ret' = SystemAnswer("create", u, r)

SystemReauth ==
    \E u \in Users, c \in FreshCsrf, r \in SystemResponses :
      /\ Reauth(u, c, r)
      /\ ret' = SystemAnswer("reauth", u, r)

SystemOauth ==
    \E state \in CsrfTokens, u \in Users, r \in SystemResponses :
      /\ oauth_handler(state, u, r)
      /\ ret' = SystemAnswer("oauth", u, r)

NextSystem ==
    \/ SystemCreate
    \/ SystemReauth
    \/ SystemOauth

SpecSystem == InitSystem /\ [][NextSystem]_vars

\* ------------------------------------------------- member references
\* What users type where a member is asked for, resolved against the
\* aliases that the alias commands store
sOne == <<"1">>
sTwo == <<"2">>
sPlus1 == <<"+", "1">>
sMinus1 == <<"-", "1">>
s1a == <<"1", "a">>
RefTexts == {sOne, sTwo, s12, sPlus1, sMinus1, s1a, sRae, sEmpty}

ResolveRef ==
    \E text \in RefTexts, sys \in SystemIds :
      \E v \in MemberRef_validate_by_system(MemberRef_from_str(text), sys) :
        /\ ret' = [op |-> "resolve", user |-> "", foreign |-> FALSE,
                   arg |-> <<text, sys>>,
                   result |-> <<MemberRef_from_str(text), v>>]
        /\ UNCHANGED <<db, platform, pipeline, flows>>

NextRef ==
    \/ TenantCreateAlias
    \/ TenantEditAlias
    \/ TenantDeleteAlias
    \/ ResolveRef

SpecRef == InitTenant /\ [][NextRef]_vars

\* The matcher and the rewriter on their own, over the stores that
\* creating triggers and disabling and enabling members build
MatchTexts == {sJHello, sHiB, sHi}

InitMatch ==
    /\ systems = [s \in {1, 2} |->
                    [owner_id |-> IF s = 1 THEN "U1" ELSE "U2",
                     currently_fronting_member_id |-> Null,
                     auto_switch_on_trigger |-> FALSE]]
    /\ members = <<[system_id |-> 1, enabled |-> TRUE, display_name |-> "A"],
                   [system_id |-> 1, enabled |-> TRUE, display_name |-> "B"],
                   [system_id |-> 2, enabled |-> TRUE, display_name |-> "C"]>>
    /\ triggers = {[id |-> 1, member_id |-> 2, system_id |-> 1,
                     text |-> sB, typ |-> "Suffix"]}
    /\ aliases = {}
    /\ message_logs = {}
    /\ next_trigger_id = 2
    /\ next_alias_id = 1
    /\ channel = {}
    /\ next_ts = 1
    /\ deleted = {}
    /\ views = {}
    /\ run = IdleRun
    /\ calls = [t \in Timestamps |-> <<>>]
    /\ done = [t \in Timestamps |-> NotDone]
    /\ errlog = {}
    /\ ret = NoRet
    /\ switching = NoSwitching
    /\ system_oauth_process = {}

MatchCreateTrigger ==
    \E u \in Users, m \in MemberIds, text \in TriggerTexts, typ \in {"prefix", "suffix"} :
      /\ CreateTrigger(u, m, text, typ)
      /\ ret' = Outcome(u, FALSE)

MatchDisable ==
    \E u \in Users, ref \in MemberRefs :
      /\ Disable(u, ref)
      /\ ret' = Outcome(u, FALSE)

MatchEnable ==
    \E u \in Users, id \in MemberIds :
      /\ Enable(u, id)
      /\ ret' = Outcome(u, FALSE)

\* handle_message on a message with text sent by u: the matcher's row, if
\* any, and the content rewrite_message posts for it
MatchText(u, text) ==
      /\ IsSome(fetch_by_user_id(u))
      /\ LET rows == find_member_by_trigger_rules(SystemOf(u), text)
             content == [text |-> Some(text), blocks |-> Some(<< <<text>> >>)]
             matched(result) == [op |-> "match", user |-> u, foreign |-> FALSE,
                                 arg |-> <<text>>, result |-> result]
         IN  IF rows = {} THEN ret' = matched(None)
             ELSE \E m \in rows :
                    ret' = matched(Some([member |-> m, content |-> rewrite_content(content, m)]))

ApplyMatcher ==
    \E u \in Users, text \in MatchTexts :
      /\ MatchText(u, text)
      /\ UNCHANGED <<db, platform, pipeline, flows>>

NextMatch ==
    \/ MatchCreateTrigger
    \/ MatchDisable
    \/ MatchEnable
    \/ ApplyMatcher

SpecMatch == InitMatch /\ [][NextMatch]_vars

\* ---------------------------------------- triggers and aliases together
\* The trigger and alias commands and forms of both users
DenormEditTrigger ==
    \E u \in Users, id \in 1..MaxTriggers, text \in TriggerTexts, typ \in {"prefix", "suffix"} :
      /\ EditTrigger(u, id, text, typ)
      /\ ret' = Outcome(u, ForeignTrigger(u, id))

NextDenorm ==
    \/ MatchCreateTrigger
    \/ DenormEditTrigger
    \/ TenantDeleteTrigger
    \/ TenantCreateAlias
    \/ TenantEditAlias
    \/ TenantDeleteAlias

SpecDenorm == InitTenant /\ [][NextDenorm]_vars

\* ------------------------------------------------------ the trigger form
\* Display of trigger::Type (displaydoc, from the variants' doc comments):
\* the value of the radio options View::create_blocks builds
Type_to_string(typ) ==
    CASE typ = "Suffix" -> "Suffix"
      [] typ = "Prefix" -> "Prefix"

\* The trigger form filled in with a text and a kind and submitted, for a
\* new trigger and for an existing one; ret holds the rows written
FormCreateTrigger ==
    \E u \in Users, m \in MemberIds, text \in TriggerTexts, typ \in Types :
      /\ CreateTrigger(u, m, text, Type_to_string(typ))
      /\ ret' = [op |-> "create_trigger", user |-> u, foreign |-> FALSE,
                 arg |-> <<text, typ>>, result |-> triggers' \ triggers]

FormEditTrigger ==
    \E u \in Users, id \in 1..MaxTriggers, text \in TriggerTexts, typ \in Types :
      /\ EditTrigger(u, id, text, Type_to_string(typ))
      /\ ret' = [op |-> "edit_trigger", user |-> u, foreign |-> FALSE,
                 arg |-> <<text, typ>>,
                 result |-> IF trigger_validate_by_system(id, SystemOf(u)) = Some(id)
                            THEN {t \in triggers' : t.id = id} ELSE {}]

NextForm ==
    \/ FormCreateTrigger
    \/ FormEditTrigger
    \/ TenantDeleteTrigger

SpecForm == InitTenant /\ [][NextForm]_vars

\* ------------------------------------------ failures of the verification
\* The answers of /triggers delete and of the edit-member form, with the
\* query that failed, if one did
TriggerNotFound == "Trigger not found. Make sure you used the correct ID"
TriggerDeleted == "Successfully deleted trigger!"
ParsingView == "ParsingView"
MemberEdited == "Successfully edited"
\* The handler returned without a word to the user
Bailed == [ok |-> FALSE, text |-> "", member |-> None]

\* Trigger::delete_trigger: the triggers table and the answer it may end with
delete_trigger(user_id, trigger_id) ==
    LET sys == fetch_by_user_id(user_id)
        out(rows, failed, response) ==
          [triggers |-> rows, failed |-> failed, response |-> response]
    IN  {out(triggers, "fetch_by_user_id", SwitchErr)} \cup
        IF ~IsSome(sys) THEN {out(triggers, "", SwitchNotice(NoSystemYet))}
        ELSE LET v == trigger_validate_by_system(trigger_id, Unwrap(sys)) IN
             {out(triggers, "validate_by_system", SwitchNotice(TriggerNotFound))} \cup
             IF ~IsSome(v) THEN {out(triggers, "", SwitchNotice(TriggerNotFound))}
             ELSE {out(triggers, "delete", SwitchErr),
                   out({t \in triggers : t.id # Unwrap(v)}, "", SwitchNotice(TriggerDeleted))}

\* handle_modal_view on the edit-member form, then edit_member: the members
\* table and what the user is told
edit_member_form(user_id, id, display_name) ==
    LET v == validate_by_user(id, user_id)
        out(rows, failed, response) ==
          [members |-> rows, failed |-> failed, response |-> response]
    IN  {out(members, "validate_by_user", Bailed)} \cup
        IF ~IsSome(v) THEN {out(members, "", Bailed)}
        ELSE IF display_name = ""
        THEN {out(members, "", [ok |-> FALSE, text |-> ParsingView, member |-> None])}
        ELSE {out(members, "update", SwitchErr),
              out([members EXCEPT ![Unwrap(v)].display_name = display_name], "",
                  SwitchNotice(MemberEdited))}

StorageDeleteTrigger ==
    \E u \in Users, id \in 1..MaxTriggers :
      \E o \in delete_trigger(u, id) :
        /\ triggers' = o.triggers
        /\ ret' = [op |-> "delete_trigger", user |-> u, foreign |-> ForeignTrigger(u, id),
                   arg |-> <<id, o.failed>>, result |-> o.response]
        /\ UNCHANGED <<systems, members, aliases, message_logs, next_trigger_id,
                       next_alias_id, platform, pipeline, flows>>

StorageEditMember ==
    \E u \in Users, id \in 1..(Len(members) + 1), name \in Names \cup {""} :
      \E o \in edit_member_form(u, id, name) :
        /\ members' = o.members
        /\ ret' = [op |-> "edit_member", user |-> u, foreign |-> ForeignMember(u, id),
                   arg |-> <<id, o.failed>>, result |-> o.response]
        /\ UNCHANGED <<systems, triggers, aliases, message_logs, next_trigger_id,
                       next_alias_id, platform, pipeline, flows>>

NextStorage ==
    \/ StorageDeleteTrigger
    \/ StorageEditMember
    \/ MatchCreateTrigger

SpecStorage == InitTenant /\ [][NextStorage]_vars

\* ---------------------------------------------------------- attachments
\* SlackFile: the members rewrite_message reads
ImageTypes == {"png", "jpg", "jpeg", "gif", "webp"}
VideoTypes == {"mp4", "mpg", "mpeg", "mkv", "avi", "mov", "ogv", "wmv"}
Files ==
    [id : {"F1", "F2"},
     filetype : {None, Some("png"), Some("mp4"), Some("pdf")},
     name : {None, Some("n")},
     permalink : {None, Some("p")}]
FileLists == UNION {[1..n -> Files] : n \in 0..2}

IsImage(file) == IsSome(file.filetype) /\ Unwrap(file.filetype) \in ImageTypes

\* The CustomSlackImageBlock pushed for an image file
ImageBlock(file) == [typ |-> "image", slack_file |-> file.id, alt_text |-> ""]

\* The closure of filter_map on a file that is no image: the markdown
\* block, or None when the filetype, the name or the permalink is missing
MarkdownBlock(file) ==
    IF ~IsSome(file.filetype) \/ ~IsSome(file.name) \/ ~IsSome(file.permalink)
    THEN None
    ELSE Some([typ |-> "markdown",
               label |-> IF Unwrap(file.filetype) \in VideoTypes
                         THEN "Video" ELSE "File attachment",
               name |-> Unwrap(file.name),
               permalink |-> Unwrap(file.permalink)])

\* rewrite_message on content.files: the image blocks and the blocks added
\* to the content
RECURSIVE translate_files(_)
translate_files(files) ==
    IF files = <<>> THEN [images |-> <<>>, blocks |-> <<>>]
    ELSE LET rest == translate_files(Tail(files))
             file == Head(files)
         IN  IF IsImage(file)
             THEN [rest EXCEPT !.images = <<ImageBlock(file)>> \o @]
             ELSE IF IsSome(MarkdownBlock(file))
             THEN [rest EXCEPT !.blocks = <<Unwrap(MarkdownBlock(file))>> \o @]
             ELSE rest

ApplyTranslateFiles ==
    \E files \in FileLists :
      /\ ret' = [op |-> "files", user |-> "", foreign |-> FALSE,
                 arg |-> <<files>>, result |-> translate_files(files)]
      /\ UNCHANGED <<db, platform, pipeline, flows>>

NextFiles == ApplyTranslateFiles

SpecFiles == InitMatch /\ [][NextFiles]_vars

\* ------------------------------------------------ the bot's own messages
\* The platform delivers the message event of a message the bot posted
\* under a member: with the subtype bot_message push_event_callback drops
\* it; without a subtype handle_message runs, finds no sender or looks up
\* the system of the bot's own account
BotUser == "BOT"

HandleBotMessage ==
    /\ run.pc = "idle"
    /\ \E m \in channel :
         /\ m.user = BotUser
         /\ m.ts \in Timestamps
         /\ done[m.ts] = NotDone
         /\ \E delivered \in {"bot_message", "no sender", "sender"}, ok \in BOOLEAN :
              LET sys == fetch_by_user_id(BotUser)
                  ends(result) ==
                    /\ run' = IdleRun
                    /\ done' = [done EXCEPT ![m.ts] = result]
                    /\ errlog' = IF result.result = "Ok" THEN errlog
                                 ELSE errlog \cup {<<m.ts, result>>}
              IN  IF delivered # "sender" THEN ends(OkRes)
                  ELSE IF ~ok THEN ends(Err("SystemFetch", "sqlx"))
                  ELSE IF ~IsSome(sys) THEN ends(OkRes)
                  ELSE /\ run' = [IdleRun EXCEPT !.pc = "find_member", !.user = BotUser,
                                                 !.ts = m.ts, !.content = m.content,
                                                 !.system = Some([id |-> Unwrap(sys)]
                                                                   @@ systems[Unwrap(sys)])]
                       /\ UNCHANGED <<done, errlog>>
    /\ UNCHANGED <<db, platform, calls, ret, flows>>

NextBot ==
    \/ \E u \in Users, c \in Contents : HandleMessage(u, c)
    \/ HandleBotMessage
    \/ FindMember
    \/ AutoSwitch
    \/ PostAsMember
    \/ InsertLog
    \/ DeleteOriginal
    \/ CmdSwitchMember

SpecBot == Init /\ [][NextBot]_vars

\* --------------------------------------------- messages without text
\* The pipeline on messages whose text is missing or empty (a file upload
\* has the text ""), next to one with a text
TextlessContents ==
    { [text |-> None, blocks |-> Some(<< <<sHi>> >>)],
      [text |-> Some(sEmpty), blocks |-> Some(<< <<sHi>> >>)],
      [text |-> Some(sHiB), blocks |-> Some(<< <<sHiB>> >>)] }

NextTextless ==
    \/ \E u \in Users, c \in TextlessContents : HandleMessage(u, c)
    \/ FindMember
    \/ AutoSwitch
    \/ PostAsMember
    \/ InsertLog
    \/ DeleteOriginal
    \/ CmdSwitchMember

SpecTextless == Init /\ [][NextTextless]_vars

\* ------------------------------------- the rewriter on rich-text blocks
\* A rich-text block as the platform delivers it: its "elements" member is
\* absent (None) or an array of sections, each given by its first text
NoElements == None
RichTexts == {NoElements, Some(<<>>), Some(<<sHiB>>), Some(<<sJHi>>), Some(<<sJHi, sHiB>>)}
BlockLists == UNION {[1..n -> RichTexts] : n \in 1..2}
BlockContents ==
    [text : {None, Some(sHiB), Some(sJHi)},
     blocks : {None} \cup {Some(b) : b \in BlockLists}]

\* richtext["elements"].as_array_mut().unwrap(), elements.get_mut(0).unwrap()
\* and elements.get_mut(len - 1).unwrap() on one block
UnwrapPanics(richtext) == ~IsSome(richtext) \/ Unwrap(richtext) = <<>>

Panicked == [returned |-> FALSE, content |-> None]
Returned(content) == [returned |-> TRUE, content |-> Some(content)]

\* A call of rewrite_content: it returns the rewritten content or panics
rewrite_content_call(content, member) ==
    IF IsSome(content.blocks)
       /\ \E i \in DOMAIN Unwrap(content.blocks) : UnwrapPanics(Unwrap(content.blocks)[i])
    THEN Panicked
    ELSE LET sections == IF IsSome(content.blocks)
                         THEN Some([i \in DOMAIN Unwrap(content.blocks) |->
                                      Unwrap(Unwrap(content.blocks)[i])])
                         ELSE None
             new == rewrite_content([text |-> content.text, blocks |-> sections], member)
         IN  Returned([text |-> new.text,
                       blocks |-> IF IsSome(new.blocks)
                                  THEN Some([i \in DOMAIN Unwrap(new.blocks) |->
                                               Some(Unwrap(new.blocks)[i])])
                                  ELSE None])

ApplyRewriteBlocks ==
    \E content \in BlockContents,
       member \in {[id |-> 2, trigger_text |-> sB, typ |-> "Suffix"],
                   [id |-> 3, trigger_text |-> sJ, typ |-> "Prefix"]} :
      /\ ret' = [op |-> "rewrite_blocks", user |-> "", foreign |-> FALSE,
                 arg |-> <<content, member>>,
                 result |-> rewrite_content_call(content, member)]
      /\ UNCHANGED <<db, platform, pipeline, flows>>

NextBlocks == ApplyRewriteBlocks

SpecBlocks == InitMatch /\ [][NextBlocks]_vars

\* The matcher and the rewriter on texts that differ from the patterns in
\* the case of a letter
sjHi == <<"j", ":", " ", "h", "i">>
sHib == <<"h", "i", " ", "-", "b">>
AgreeTexts == {sJHi, sjHi, sHiB, sHib, sHi}

ApplyAgree ==
    \E u \in Users, text \in AgreeTexts :
      /\ MatchText(u, text)
      /\ UNCHANGED <<db, platform, pipeline, flows>>

NextAgree ==
    \/ MatchCreateTrigger
    \/ MatchDisable
    \/ MatchEnable
    \/ ApplyAgree

SpecAgree == InitMatch /\ [][NextAgree]_vars

\* ------------------------------------------------ the rewriter alone
\* rewrite_content applied to plain texts over two characters, for every
\* short pattern and both trigger types
RewriteChars == {"a", "b"}
RewriteTexts == UNION {[1..n -> RewriteChars] : n \in 0..MaxTextLen}
RewritePatterns == UNION {[1..n -> RewriteChars] : n \in 0..2}

ApplyRewrite ==
    \E text \in RewriteTexts, pattern \in RewritePatterns, typ \in Types :
      LET member == [id |-> 1, trigger_text |-> pattern, typ |-> typ]
          content == [text |-> Some(text), blocks |-> None]
      IN  /\ ret' = [op |-> "rewrite", user |-> "", foreign |-> FALSE,
                     arg |-> <<text, pattern, typ>>,
                     result |-> rewrite_content(content, member)]
          /\ UNCHANGED <<db, platform, pipeline, flows>>

NextRewrite == ApplyRewrite

SpecRewrite == InitMatch /\ [][NextRewrite]_vars

\* ------------------------------------------------------------- properties
\* The vocabulary of the properties below
Owns(system_id, member_id) ==
    member_id \in MemberIds /\ members[member_id].system_id = system_id

FoldAll(str) == [i \in DOMAIN str |-> Fold(str[i])]

StartsWith(text, p) ==
    Len(p) <= Len(text) /\ SubSeq(FoldAll(text), 1, Len(p)) = FoldAll(p)

EndsWith(text, p) ==
    /\ Len(p) <= Len(text)
    /\ SubSeq(FoldAll(text), Len(text) - Len(p) + 1, Len(text)) = FoldAll(p)

\* The pattern of trigger t, of an enabled member, matches the text
PatternMatches(t, text) ==
    /\ t.member_id \in MemberIds
    /\ members[t.member_id].enabled
    /\ \/ t.typ = "Prefix" /\ StartsWith(text, t.text)
       \/ t.typ = "Suffix" /\ EndsWith(text, t.text)

\* No trigger in the store matches the content (a content without text is
\* matched by none)
NoTriggerMatches(content) ==
    IsSome(content.text) => ~\E t \in triggers : PatternMatches(t, Unwrap(content.text))

InRewrite == run.pc \in {"switch", "post", "log", "delete"}
Sender == Unwrap(run.system)
Selected == Unwrap(run.member)


PostCall(t) == calls[t][1]
PostFailed(t) == Len(calls[t]) >= 1 /\ ~PostCall(t).ok
PostSucceeded(t) == Len(calls[t]) >= 1 /\ PostCall(t).ok

\* C1: for a message of the owner of system S, the persona the trigger
\* matcher selects belongs to S; when the only triggers that match belong to
\* another system, no persona is selected and the rewrite does not start.
C1_MatcherSelectsOwnPersona ==
    (InRewrite /\ run.triggered) => Owns(Sender.id, Selected.id)

\* C2: when the sender's system fronts persona C and no trigger matches the
\* message, with or without text, handle_message selects C and goes on to
\* repost the message as C (unless the store fails).
C2_FrontingFallback ==
    [][(/\ run.pc = "find_member"
        /\ run' # run
        /\ Sender.currently_fronting_member_id # Null
        /\ systems[Sender.id].currently_fronting_member_id = Sender.currently_fronting_member_id
        /\ NoTriggerMatches(run.content))
       => \/ done'[run.ts].result = "Err"
          \/ /\ run'.pc = "post"
             /\ Unwrap(run'.member) = FromMember(Sender.currently_fronting_member_id)]_vars

\* C3: the fronting member of every system is null or a member of that
\* same system.
C3_FrontingInOwnSystem ==
    \A s \in SystemIds :
      \/ systems[s].currently_fronting_member_id = Null
      \/ Owns(s, systems[s].currently_fronting_member_id)

\* C4: when its query is answered, validate_by_system(id, S) returns the id
\* it was given, verified, exactly when a member with that id exists and
\* its system is S, returns None otherwise, and in both cases leaves the
\* store as it is.
C4_ValidateBySystem ==
    [][ret'.op = "validate_by_system" =>
         LET id == ret'.arg[1]
             S == ret'.arg[2]
         IN  /\ IF \E m \in DOMAIN members : m = id /\ members[m].system_id = S
                THEN ret'.result = Some(id)
                ELSE ret'.result = None
             /\ UNCHANGED db]_vars

\* The rows a step changes, creates or removes all belong to system sys
ChangedRowsBelongTo(sys) ==
    /\ DOMAIN members' = DOMAIN members
    /\ \A m \in DOMAIN members : members'[m] # members[m] => members[m].system_id = sys
    /\ \A s \in SystemIds : systems'[s] # systems[s] => s = sys
    /\ \A t \in (triggers \ triggers') \cup (triggers' \ triggers) :
         t.system_id = sys /\ Owns(sys, t.member_id)
    /\ \A a \in (aliases \ aliases') \cup (aliases' \ aliases) :
         a.system_id = sys /\ Owns(sys, a.member_id)

\* C5: whatever id, reference or form a command or form submission carries,
\* the member, system, trigger and alias rows it changes belong to the
\* system of the account that sent it; an account without a system changes
\* nothing.
C5_MutationsStayInOwnSystem ==
    [][ret'.op = "command" => ChangedRowsBelongTo(SystemOf(ret'.user))]_vars

\* C6: a run whose post-as-persona call failed has ended with an error that
\* was logged, has issued no other call (no delete), has left the original
\* in place, and every log entry in the store is of a post that succeeded.
C6_PostFailureAborts ==
    /\ \A t \in Timestamps :
         PostFailed(t) =>
           /\ done[t] \in {Err("MessageRewrite", "PostMessage"), Err("MemberFetch", "PostMessage")}
           /\ <<t, done[t]>> \in errlog
           /\ Len(calls[t]) = 1
           /\ \E m \in channel : m.ts = t /\ m.user # "BOT"
           /\ t \notin deleted
    /\ \A l \in message_logs :
         \E t \in Timestamps : PostSucceeded(t) /\ PostCall(t).target = l.message_id

\* C7: the step in which the delete of the original fails, after the post
\* and the log insert succeeded, ends the run with a logged error, removes
\* neither the reposted message nor its log entry (the channel and the
\* message log are as before the step) and leaves the original in place; a
\* run that has ended issues no further call.
C7_DeleteFailureKeepsRepost ==
    [][/\ \A t \in Timestamps :
            (Len(calls[t]) = 1 /\ Len(calls'[t]) = 2 /\ ~calls'[t][2].ok) =>
              /\ calls'[t][2].api = "chat.delete"
              /\ run' = IdleRun
              /\ done'[t].result = "Err" /\ done'[t].cause = "DeleteMessage"
              /\ <<t, done'[t]>> \in errlog'
              /\ channel' = channel
              /\ message_logs' = message_logs
              /\ \E m \in channel' : m.ts = t /\ m.user # "BOT"
       /\ \A t \in Timestamps : done[t] # NotDone => calls'[t] = calls[t]]_vars

\* C8: after a run whose log insert failed, the failure is in the error
\* log, the reposted message exists without a log entry, and no follow-up
\* has edited or deleted it.
C8_LogFailureLeavesOrphan ==
    \A t \in Timestamps :
      done[t].cause = "MessageLog" =>
        /\ <<t, done[t]>> \in errlog
        /\ PostSucceeded(t)
        /\ \E m \in channel : m.ts = PostCall(t).target /\ m.user = "BOT" /\ ~m.edited
        /\ ~\E l \in message_logs : l.message_id = PostCall(t).target

\* C9: a run that selected its persona by trigger under auto-switch reaches
\* the post step only with the fronting member stored as that persona, and
\* the post, log and delete steps, failing or not, leave the systems table
\* as it is.
C9_SwitchBeforePost ==
    [][/\ (/\ run.pc # "post"
           /\ run'.pc = "post"
           /\ run'.triggered
           /\ Unwrap(run'.system).auto_switch_on_trigger)
          => systems'[Unwrap(run'.system).id].currently_fronting_member_id
               = Unwrap(run'.member).id
       /\ (run.pc \in {"post", "log", "delete"} /\ run' # run) => systems' = systems]_vars

\* C10: when no trigger matches the message and the sender's system fronts
\* nobody, handle_message returns without a post, a delete or a log insert
\* and leaves the fronting members as they are.
C10_NoMatchNoFronting ==
    [][(/\ run.pc = "find_member"
        /\ run' # run
        /\ Sender.currently_fronting_member_id = Null
        /\ NoTriggerMatches(run.content))
       => /\ run' = IdleRun
          /\ calls' = calls
          /\ channel' = channel
          /\ deleted' = deleted
          /\ message_logs' = message_logs
          /\ systems' = systems]_vars

\* States in which the cases of the properties above have happened
SenderOf(t) == {m.user : m \in {x \in channel : x.ts = t /\ x.user # "BOT"}}

C4_Witness ==
    /\ ret.op = "validate_by_system"
    /\ ret.arg[1] \in MemberIds
    /\ members[ret.arg[1]].system_id # ret.arg[2]
    /\ ret.result = None

\* U2 has named a row of system 1, whose rows are not as U1 first had them
C5_Witness ==
    /\ ret.op = "command"
    /\ ret.user = "U2"
    /\ ret.foreign
    /\ aliases # {}
    /\ members[1].display_name = "X"

C6_Witness ==
    \E t \in Timestamps : PostFailed(t) /\ done[t].cause = "PostMessage"

C7_Witness ==
    \E t \in Timestamps :
      /\ Len(calls[t]) = 2 /\ ~calls[t][2].ok
      /\ \E m \in channel : m.ts = PostCall(t).target /\ m.user = "BOT"
      /\ \E l \in message_logs : l.message_id = PostCall(t).target
      /\ done[t].cause = "DeleteMessage"

C8_Witness ==
    \E t \in Timestamps :
      /\ done[t].cause = "MessageLog"
      /\ \E m \in channel : m.ts = PostCall(t).target /\ m.user = "BOT"

C9_Witness ==
    \E t \in Timestamps, s \in SystemIds :
      /\ PostFailed(t)
      /\ done[t] = Err("MessageRewrite", "PostMessage")
      /\ systems[s].owner_id \in SenderOf(t)
      /\ systems[s].auto_switch_on_trigger
      /\ \E m \in channel, tr \in triggers :
           /\ m.ts = t
           /\ IsSome(m.content.text)
           /\ PatternMatches(tr, Unwrap(m.content.text))
           /\ systems[s].currently_fronting_member_id = tr.member_id

C10_Witness ==
    \E t \in Timestamps, s \in SystemIds :
      /\ done[t] = OkRes
      /\ calls[t] = <<>>
      /\ systems[s].owner_id \in SenderOf(t)
      /\ systems[s].currently_fronting_member_id = Null
      /\ \E m \in channel : m.ts = t /\ IsSome(m.content.text) /\ NoTriggerMatches(m.content)

\* The text of trigger t is at its end of the text, whatever the member
TextMatches(t, text) ==
    \/ t.typ = "Prefix" /\ StartsWith(text, t.text)
    \/ t.typ = "Suffix" /\ EndsWith(text, t.text)

\* C11: whatever the text, the member of the row the matcher returns is
\* enabled: a disabled member is not returned even when its trigger's
\* pattern matches the text.
C11_MatcherSkipsDisabled ==
    [][(ret'.op = "match" /\ IsSome(ret'.result))
         => members[Unwrap(ret'.result).member.id].enabled]_vars

C11_Witness ==
    /\ ret.op = "match"
    /\ ret.result = None
    /\ \E t \in triggers :
         /\ TextMatches(t, ret.arg[1])
         /\ ~members[t.member_id].enabled

\* C12: when the only trigger that matches "J: hello" is the Prefix trigger
\* "J:" of an enabled member P of the sender's system, the matcher selects P
\* and the rewritten text is exactly "hello"; when the only trigger that
\* matches "hi -B" is the Suffix trigger "-B" of such a P, the matcher
\* selects P and the rewritten text is exactly "hi".
C12_MatchAndRewrite ==
    [][ret'.op = "match" =>
         \A t \in triggers :
           (/\ members[t.member_id].enabled
            /\ t.system_id = SystemOf(ret'.user)
            /\ \A x \in triggers : PatternMatches(x, ret'.arg[1]) => x = t
            /\ \/ t.typ = "Prefix" /\ t.text = sJ /\ ret'.arg[1] = sJHello
               \/ t.typ = "Suffix" /\ t.text = sB /\ ret'.arg[1] = sHiB)
           => /\ IsSome(ret'.result)
              /\ Unwrap(ret'.result).member.id = t.member_id
              /\ Unwrap(ret'.result).content.text
                   = Some(IF t.typ = "Prefix" THEN sHello ELSE sHi)]_vars

\* The request the last follow-up step answered, and what the message log
\* resolved its message to before the step
Requester == ret'.user
Requested == ret'.arg[1]
Resolved == fetch_by_message_id(Requested)
OwnerResolved == IsSome(Resolved) /\ ResolveSystem(Unwrap(Resolved)).owner_id = Requester

C14_DeleteOnlyByOwner ==
    [][ret'.op = "delete" =>
         IF OwnerResolved
         THEN /\ ret'.result \in {<<"Ok">>, <<"Err">>}
              /\ UNCHANGED <<db, next_ts, views>>
              /\ \/ UNCHANGED <<channel, deleted>>
                 \/ /\ ret'.result = <<"Ok">>
                    /\ channel' = {m \in channel : m.ts # Requested}
                    /\ deleted' = deleted \cup {Requested}
         ELSE /\ ret'.result \in {IF IsSome(Resolved) THEN <<NotByYourSystem>> ELSE <<NotByMember>>,
                                   <<"Err">>}
              /\ UNCHANGED <<db, platform, pipeline>>]_vars

C14_Witness ==
    /\ ret.op = "delete"
    /\ ret.result = <<NotByYourSystem>>
    /\ ret.user = "U2"
    /\ \E m \in channel : m.ts = ret.arg[1] /\ m.user = "BOT"
    /\ \E l \in message_logs : l.message_id = ret.arg[1]

\* The requester may reproxy the message: it is logged and the requester
\* owns the system its entry resolves to, or it is not logged and the
\* requester sent it
MayReproxy ==
    IF IsSome(Resolved) THEN OwnerResolved
    ELSE \E m \in channel : m.ts = Requested /\ m.user = Requester

\* C15: a reproxy message action by an account that may not reproxy the
\* message is answered with the notice "This message was not sent by you!"
\* (or fails) and opens no form; a reproxy form is only opened for an account
\* that may; the reproxy message action itself posts and deletes nothing,
\* and a message is posted or deleted by reproxy only on the submission of
\* a form that was opened for that account and message.
C15_ReproxyOnlyOwnMessages ==
    [][/\ ret'.op = "start_reproxy" =>
            /\ UNCHANGED <<db, channel, next_ts, deleted>>
            /\ ~MayReproxy => /\ views' = views
                              /\ ret'.result \in {<<NotByYou>>, <<"Err">>}
       /\ \A v \in views' \ views : v.kind = "reproxy" =>
            /\ ret'.op = "start_reproxy"
            /\ v = View("reproxy", Requester, Requested)
            /\ MayReproxy
       /\ next_ts' # next_ts =>
            /\ ret'.op = "reproxy"
            /\ View("reproxy", Requester, Requested) \in views
            /\ \E m \in channel' \ channel :
                 /\ m.ts = next_ts
                 /\ Owns(SystemOf(Requester), m.member)
            /\ deleted' \subseteq deleted \cup {Requested}]_vars

C15_Witness ==
    /\ ret.op = "start_reproxy"
    /\ ret.result = <<NotByYou>>
    /\ \E m \in channel : m.ts = 4 /\ m.user = "BOT"
    /\ 3 \in deleted

\* C16: a deletion notification for a message id that has no entry in the
\* message log changes nothing in the store (and fails only when the store
\* does); after a notification for an id was handled the log has no entry
\* for it, so that handling the same notification again changes nothing.
C16_DeletionNotificationIdempotent ==
    [][ret'.op = "message_deleted" =>
         /\ ~IsSome(Resolved) => UNCHANGED <<db, platform, pipeline>>
         /\ ret'.result = <<"Ok">> =>
              ~\E l \in message_logs' : l.message_id = Requested
         /\ (ret.op = "message_deleted" /\ ret.arg = ret'.arg /\ ret.result = <<"Ok">>)
              => UNCHANGED <<db, platform, pipeline>>]_vars

C16_Witness ==
    /\ ret.op = "message_deleted"
    /\ ret.arg = <<3>>
    /\ ret.result = <<"Ok">>
    /\ message_logs # {}

\* C17: a deletion notification for a message id that has an entry in the
\* message log, when handled, removes that entry, so that resolving the id
\* afterwards gives none, and leaves the entries of other ids and the
\* systems, members, triggers and aliases as they are.
C17_DeletionPurgesEntry ==
    [][(ret'.op = "message_deleted" /\ ret'.result = <<"Ok">> /\ IsSome(Resolved)) =>
         /\ ~\E l \in message_logs' : l.message_id = Requested
         /\ message_logs' = {l \in message_logs : l.message_id # Requested}
         /\ UNCHANGED <<systems, members, triggers, aliases>>]_vars

C17_Witness ==
    /\ ret.op = "message_deleted"
    /\ ret.arg = <<2>>
    /\ ret.result = <<"Ok">>
    /\ message_logs = {[member_id |-> 1, message_id |-> 1]}

\* C18: a run inserts into the message log exactly once, between its post
\* and its delete: the one entry maps the id the post call returned to the
\* member the message was posted as; no other step of a run adds an entry,
\* and a run that completes with both calls made has passed that insert.
C18_OneLogEntryPerRun ==
    [][/\ \A l \in message_logs' \ message_logs :
            /\ run.pc = "log" /\ run'.pc = "delete"
            /\ message_logs' = message_logs \cup {l}
            /\ l = [member_id |-> Selected.id, message_id |-> PostCall(run.ts).target]
            /\ PostSucceeded(run.ts)
            /\ ~\E x \in message_logs : x.message_id = l.message_id
            /\ \E m \in channel :
                 m.ts = l.message_id /\ m.user = "BOT" /\ m.member = l.member_id
       /\ (run.pc = "log" /\ run'.pc = "delete") => message_logs' # message_logs
       /\ (run.pc # "log" /\ run'.pc = "log") => run.pc = "post"
       /\ (run.pc # "delete" /\ run'.pc = "delete") => run.pc = "log"
       /\ \A t \in Timestamps :
            (done[t] = NotDone /\ done'[t] = OkRes /\ Len(calls'[t]) = 2)
              => run.pc = "delete" /\ run.ts = t]_vars

C18_Witness ==
    \E t \in Timestamps :
      /\ done[t] = OkRes
      /\ Len(calls[t]) = 2
      /\ calls[t][2].ok
      /\ Cardinality({l \in message_logs : l.message_id = PostCall(t).target}) = 1
      /\ Cardinality(message_logs) = 1

\* C19: no follow-up action (edit, delete, info, reproxy and their opening
\* steps) and no command changes the message log: a step that changes it
\* only removes the entries of one id whose deletion the platform reported,
\* and is neither a follow-up (the channel and the open forms are as
\* before) nor a command (the store's other tables and the last command are
\* as before).
C19_LogChangedOnlyByNotification ==
    [][message_logs' # message_logs =>
         /\ \E t \in deleted :
              message_logs' = {l \in message_logs : l.message_id # t}
         /\ UNCHANGED <<systems, members, triggers, aliases, platform, pipeline, ret>>]_vars

C19_Witness ==
    /\ message_logs = {[member_id |-> 1, message_id |-> 1],
                       [member_id |-> 2, message_id |-> 2]}
    /\ 1 \in deleted
    /\ \E m \in channel : m.ts = 4 /\ m.user = "BOT"
    /\ \E v \in views : v.kind = "reproxy"
    /\ ret.op = "command"
    /\ systems[2].currently_fronting_member_id = 2

\* The member a reference names in a system: the id itself when it belongs
\* to the system, or the member an alias of the system points to
VerifiedAs(ref, id, sys) ==
    /\ id \in MemberIds
    /\ members[id].system_id = sys
    /\ \/ ref.kind = "Id" /\ ref.id = id
       \/ /\ ref.kind = "Alias"
          /\ \E a \in aliases :
               a.alias = ref.alias /\ a.system_id = sys /\ a.member_id = id

\* C20: a confirmed switch to base leaves the requester's system with no
\* fronting member and returns no member; a confirmed switch to a member
\* leaves it fronting the verified member the reference names and returns
\* that member's row; when the answer is given the update is in the store,
\* it touches the fronting column of the requester's system only, and an
\* answer that is not a confirmation comes with no change. A switch to base
\* by an owner, and a switch to an enabled member of the owner's system, is
\* confirmed unless a query fails.
C20_SwitchPersistsAndReturns ==
    [][ret'.op = "switch" =>
         LET user == ret'.user
             target == ret'.arg[1]
             answer == ret'.result[1]
             sys == SystemOf(user)
             confirmed == answer.text \in {SwitchedToBase, SwitchToMember}
         IN  /\ confirmed =>
                  /\ answer.ok /\ sys # Null
                  /\ \E f \in {Null} \cup MemberIds :
                       systems' =
                         [systems EXCEPT ![sys].currently_fronting_member_id = f]
                  /\ target = None =>
                       /\ systems'[sys].currently_fronting_member_id = Null
                       /\ answer.member = None
                  /\ target # None =>
                       \E id \in MemberIds :
                         /\ VerifiedAs(Unwrap(target), id, sys)
                         /\ systems'[sys].currently_fronting_member_id = id
                         /\ answer.member = Some(Member_fetch_by_id(id))
             /\ ~confirmed => UNCHANGED systems
             /\ (target = None /\ sys # Null) =>
                  answer \in {SwitchErr, Switched(None)}
             /\ (target # None /\ sys # Null
                   /\ Unwrap(target).kind = "Id"
                   /\ VerifiedAs(Unwrap(target), Unwrap(target).id, sys)
                   /\ enabled(Unwrap(target).id)) =>
                  answer \in {SwitchErr,
                              Switched(Some(Member_fetch_by_id(Unwrap(target).id)))}
             /\ UNCHANGED <<members, triggers, aliases, message_logs,
                            platform, pipeline>>]_vars

C20_Witness ==
    /\ ret.op = "switch"
    /\ ret.user = "U1"
    /\ ret.arg[1] = Some([kind |-> "Alias", id |-> Null, alias |-> sRae])
    /\ ret.result[1] = Switched(Some(Member_fetch_by_id(2)))
    /\ systems[1].currently_fronting_member_id = 2
    /\ systems[2].currently_fronting_member_id = 3
    /\ ~enabled(1)

\* C21: when switch commands of one system run with their steps
\* interleaved, a command whose UPDATE was executed ends with its
\* confirmation, a command that has been validated can always execute its
\* UPDATE whatever the others did, and the system fronts the target of the
\* UPDATE executed last.
C21_LastWriteWins ==
    \A p \in SwitchProcs :
      LET r == switching[p] IN
        /\ r.pc = "update" => ENABLED (SwitchUpdate(p) /\ UNCHANGED ret)
        /\ r.applied > 0 =>
             /\ r.pc = "done"
             /\ Unwrap(r.response).text \in {SwitchedToBase, SwitchToMember}
        /\ (r.applied > 0
              /\ \A q \in SwitchProcs :
                   switching[q].system = r.system => switching[q].applied <= r.applied)
             => systems[r.system].currently_fronting_member_id = r.target

C21_Witness ==
    /\ switching[1].system = 1 /\ switching[2].system = 1
    /\ switching[1].applied = 2 /\ switching[2].applied = 1
    /\ switching[1].target = 1 /\ switching[2].target = 2
    /\ systems[1].currently_fronting_member_id = 1

\* C22: no stored alias text parses as an integer, whatever aliases were
\* added and edited.
C22_NoIntegerAlias ==
    \A a \in aliases : ~ParsesAsInteger(a.alias)

C24_DisabledNeverAddressed ==
    [][/\ \A sys \in SystemIds :
            LET new == systems'[sys].currently_fronting_member_id IN
              (new # systems[sys].currently_fronting_member_id /\ new # Null)
                => enabled(new)
       /\ \A a \in aliases' \ aliases : enabled(a.member_id)
       /\ \A id \in MemberIds :
            members'[id].display_name # members[id].display_name => enabled(id)]_vars

\* C25: every delivery of an event is acknowledged at once, whatever comes
\* of handling it: the acknowledgement does not wait for the outcome of the
\* pipeline's platform calls, so a delivery for which a platform call was
\* issued has its acknowledgement already.
C25_AcknowledgedAtOnce ==
    \A t \in Timestamps :
      Len(calls[t]) >= 1 => Acknowledged(t)

\* The texts of the model that are integers, with their values
IntegerTexts == {<<sOne, 1>>, <<sTwo, 2>>, <<s12, 12>>, <<sPlus1, 1>>, <<sMinus1, 0 - 1>>}

\* C26: a reference built from a text is an id exactly when the text is an
\* integer, and then the id is its value; it is an alias with that text
\* otherwise. Resolving either kind against a system gives a member of that
\* system and nothing else: an id resolves to itself when the member is in
\* the system, an alias to a member an alias row of the system names, and
\* anything else is not found.
C26_RefResolvesInSystem ==
    ret.op = "resolve" =>
      LET text == ret.arg[1]
          sys == ret.arg[2]
          ref == ret.result[1]
          v == ret.result[2]
      IN  /\ ref.kind = "Id" <=> \E p \in IntegerTexts : p[1] = text
          /\ ref.kind = "Id" => <<text, ref.id>> \in IntegerTexts
          /\ ref.kind = "Alias" => ref.alias = text
          /\ IsSome(v) => /\ Unwrap(v) \in MemberIds
                          /\ members[Unwrap(v)].system_id = sys
          /\ ref.kind = "Id" =>
               (IsSome(v) <=> (ref.id \in MemberIds /\ members[ref.id].system_id = sys))
          /\ (ref.kind = "Id" /\ IsSome(v)) => Unwrap(v) = ref.id
          /\ ref.kind = "Alias" =>
               /\ IsSome(v) <=> \E a \in aliases : a.alias = text /\ a.system_id = sys
               /\ IsSome(v) => \E a \in aliases :
                    a.alias = text /\ a.system_id = sys /\ a.member_id = Unwrap(v)

C26_Witness ==
    /\ ret.op = "resolve"
    /\ ret.arg = <<sRae, 1>>
    /\ ret.result[2] = None
    /\ \E a \in aliases : a.alias = sRae /\ a.system_id = 2

\* C27: within one run the steps come in the order post as the member,
\* MessageLog insert, delete of the original. The post is the first call of
\* a run and is issued once; the run inserts its log entry only after the
\* post succeeded and before any delete; the delete is issued once, only
\* after the post succeeded and the run inserted the log entry of the posted
\* message, and nothing is called after it.
C27_PostLogDeleteInOrder ==
    [][ /\ \A t \in Timestamps :
             calls'[t] # calls[t] =>
               /\ t = run.ts
               /\ \E c \in {calls'[t][Len(calls'[t])]} :
                    /\ calls'[t] = Append(calls[t], c)
                    /\ c.api \in {"chat.postMessage", "chat.delete"}
                    /\ c.api = "chat.postMessage" =>
                         /\ calls[t] = <<>>
                         /\ run.pc = "post"
                         /\ run'.pc = IF c.ok THEN "log" ELSE "idle"
                    /\ c.api = "chat.delete" =>
                         /\ Len(calls[t]) = 1
                         /\ PostSucceeded(t)
                         /\ run.pc = "delete"
                         /\ run.posted = PostCall(t).target
                         /\ run'.pc = "idle"
        /\ (run'.pc = "delete" /\ run.pc # "delete") =>
             /\ run.pc = "log"
             /\ calls[run.ts] = <<Call("chat.postMessage", TRUE, run.posted)>>
             /\ calls' = calls
             /\ [member_id |-> Selected.id, message_id |-> run.posted] \in message_logs'
        /\ (run.pc = "log" /\ run'.pc # "delete") =>
             /\ run'.pc \in {"log", "idle"}
             /\ calls' = calls
      ]_vars

C27_Witness ==
    \E t \in Timestamps :
      /\ Len(calls[t]) = 2
      /\ calls[t][1].api = "chat.postMessage"
      /\ calls[t][2] = Call("chat.delete", TRUE, t)
      /\ \E l \in message_logs : l.message_id = calls[t][1].target
      /\ t \in deleted
      /\ done[t] = OkRes

\* C28: on a plain text rewrite_content removes one occurrence of the
\* pattern, the leading one for a Prefix trigger and the trailing one for a
\* Suffix trigger, so the pattern and the result put together again give the
\* text; of a pattern that is repeated the other occurrences stay; a text
\* that has not the pattern at that end is left as it is.
C28_RewriteStripsOneOccurrence ==
    ret.op = "rewrite" =>
      LET text == ret.arg[1]
          pattern == ret.arg[2]
          typ == ret.arg[3]
          new == Unwrap(ret.result.text)
          Rests == {SubSeq(text, i, j) : i \in 1..(Len(text) + 1), j \in 0..Len(text)}
      IN  /\ typ = "Prefix" =>
               /\ (\E rest \in Rests : text = pattern \o rest) => text = pattern \o new
               /\ (\A rest \in Rests : text # pattern \o rest) => new = text
               /\ \A rest \in Rests :
                    text = pattern \o pattern \o rest => new = pattern \o rest
          /\ typ = "Suffix" =>
               /\ (\E rest \in Rests : text = rest \o pattern) => text = new \o pattern
               /\ (\A rest \in Rests : text # rest \o pattern) => new = text
               /\ \A rest \in Rests :
                    text = rest \o pattern \o pattern => new = rest \o pattern
          /\ ret.result.blocks = None

C28_Witness ==
    /\ ret.op = "rewrite"
    /\ ret.arg = <<<<"a", "a", "b">>, <<"a">>, "Prefix">>
    /\ ret.result.text = Some(<<"a", "b">>)

\* C29: the matcher reports a member for a text only if the text starts
\* with (Prefix) or ends with (Suffix) the very characters of the row's
\* pattern, so that the text posted for the member is the text without the
\* pattern and never the text as it was sent.
C29_MatcherAgreesWithRewriter ==
    (ret.op = "match" /\ IsSome(ret.result)) =>
      LET text == ret.arg[1]
          m == Unwrap(ret.result).member
          new == Unwrap(Unwrap(ret.result).content.text)
      IN  /\ m.typ = "Prefix" => text = m.trigger_text \o new
          /\ m.typ = "Suffix" => text = new \o m.trigger_text

\* C30: a step of the pipeline changes the systems table only when the
\* run's member was selected by a trigger and the auto-switch flag of the
\* sender's system is set, and then it makes that member the fronting
\* member of that system and changes nothing else; every step of a run
\* that uses the fronting member, and of a triggered run with the flag
\* unset, leaves the systems table as it is.
C30_PipelineSwitchesOnlyOnTrigger ==
    [][ (run' # run /\ systems' # systems) =>
          LET system == Unwrap(run.system) IN
            /\ run.triggered
            /\ systems[system.id].auto_switch_on_trigger
            /\ systems' = [systems EXCEPT ![system.id].currently_fronting_member_id = Selected.id]
      ]_vars

C30_Witness ==
    /\ run.pc = "post"
    /\ run.triggered
    /\ systems[Unwrap(run.system).id].auto_switch_on_trigger
    /\ systems[Unwrap(run.system).id].currently_fronting_member_id = Selected.id

\* C31: whatever the content, its text and its list of blocks, a rich-text
\* block without elements or with an empty list of elements included,
\* rewrite_content returns.
C31_RewriteNeverFails ==
    ret.op = "rewrite_blocks" => ret.result.returned

\* C32: for a message whose text is missing or empty the selection step
\* selects no member by trigger, and it does not query the triggers at all:
\* when nobody fronts, the step makes no query that could fail and the run
\* ends with Ok.
C32_NoScanWithoutText ==
    [][ (run.pc = "find_member" /\ run' # run
           /\ (~IsSome(run.content.text) \/ run.content.text = Some(sEmpty))) =>
          /\ ~run'.triggered
          /\ Unwrap(run.system).currently_fronting_member_id = Null =>
               done'[run.ts] = OkRes
      ]_vars

\* C33: every attachment is translated: the image blocks are those of the
\* image files, one each and with the file's id, the added markdown blocks
\* are one for each file that is no image, and so no file is left out.
C33_EveryAttachmentTranslated ==
    ret.op = "files" =>
      LET files == ret.arg[1]
          out == ret.result
          images == SelectSeq(files, IsImage)
          others == SelectSeq(files, LAMBDA f : ~IsImage(f))
      IN  /\ Len(out.images) = Len(images)
          /\ \A i \in DOMAIN out.images :
               out.images[i].typ = "image" /\ out.images[i].slack_file = images[i].id
          /\ Len(out.blocks) = Len(others)
          /\ \A i \in DOMAIN out.blocks : out.blocks[i].typ = "markdown"
          /\ Len(out.images) + Len(out.blocks) = Len(files)

\* C34: when a query of the store fails while /triggers delete or the
\* edit-member form verifies the id it was given, the user is told of a
\* storage error: the answer is not the one given for an id that is absent
\* or of another system, and it is not withheld.
C34_StorageFailureSurfaced ==
    (ret.op \in {"delete_trigger", "edit_member"} /\ ret.arg[2] # "") =>
      /\ ret.result = SwitchErr
      /\ ret.result # SwitchNotice(TriggerNotFound)
      /\ ret.result # Bailed

\* C35: the system id stored on every trigger row and on every alias row
\* is the system of the member the row references.
C35_DenormalizedSystemId ==
    /\ \A t \in triggers :
         t.member_id \in MemberIds /\ members[t.member_id].system_id = t.system_id
    /\ \A a \in aliases :
         a.member_id \in MemberIds /\ members[a.member_id].system_id = a.system_id

C35_Witness ==
    /\ \E t \in triggers : t.id = 2 /\ t.system_id = 2 /\ t.text = sJ
    /\ \E t \in triggers : t.id = 1 /\ t.text = sJ /\ t.typ = "Prefix"
    /\ \E a \in aliases : a.system_id = 2 /\ a.alias = s12

\* C36: whatever the interleaving of the disable and switch commands of a
\* system, the member that fronts a system, if any, is enabled.
C36_FrontingIsEnabled ==
    \A s \in SystemIds :
      systems[s].currently_fronting_member_id # Null =>
        /\ systems[s].currently_fronting_member_id \in MemberIds
        /\ members[systems[s].currently_fronting_member_id].enabled

\* C37: when a reproxy has succeeded, the message it posted has a
\* MessageLog entry that maps it to the member chosen in the form.
C37_ReproxyIsLogged ==
    [][ (ret'.op = "reproxy" /\ ret'.result = <<"Ok">> /\ next_ts' # next_ts) =>
          \E m \in channel' :
            /\ m.ts = next_ts
            /\ [member_id |-> m.member, message_id |-> m.ts] \in message_logs'
      ]_vars

\* C38: a run of the pipeline starts only for a message a user sent, never
\* for one the bot posted; no call is made for a message of the bot, and
\* for a message of a user at most one post is made.
C38_BotPostStartsNoRun ==
    [][ /\ (run.pc = "idle" /\ run'.pc # "idle") =>
             \E m \in channel' :
               m.ts = run'.ts /\ m.user = run'.user /\ m.user # BotUser
        /\ \A m \in channel' :
             (m.user = BotUser /\ m.ts \in Timestamps) => calls'[m.ts] = <<>>
        /\ \A t \in Timestamps :
             Len(SelectSeq(calls'[t], LAMBDA c : c.api = "chat.postMessage")) <= 1
      ]_vars

C38_Witness ==
    /\ run.pc = "idle"
    /\ \E m \in channel :
         /\ m.user = BotUser
         /\ m.ts \in Timestamps
         /\ done[m.ts] = OkRes
         /\ calls[m.ts] = <<>>
         /\ ~IsSome(m.content.text)
         /\ \E s \in SystemIds : systems[s].currently_fronting_member_id = m.member

\* C39: the kind chosen in the trigger form is the kind of the view parsed
\* from the submitted form: the row a submission with kind Suffix
\* (respectively Prefix) creates or edits is stored as Suffix (respectively
\* Prefix).
C39_FormKeepsKind ==
    ret.op \in {"create_trigger", "edit_trigger"} =>
      \A t \in ret.result : t.text = ret.arg[1] /\ t.typ = ret.arg[2]

====
